---------------------------- MODULE Spec2Model ----------------------------
(***************************************************************************)
(* Model of the autograsper data-collection engine:                        *)
(*   - FileManager.get_session_dirs        (file_manager.py)               *)
(*   - AutograsperBase.run_grasping & co.  (grasper.py)                    *)
(*   - DataCollectionCoordinator loops     (coordinator.py)                *)
(*   - Recorder.record capture loop        (recording.py)                  *)
(* Threads are modelled by program counters; every action is one atomic    *)
(* step of one thread between two accesses to shared state.                *)
(***************************************************************************)
EXTENDS Integers, Sequences, FiniteSets, TLC

(***************************************************************************)
(* Bounds of the model.                                                    *)
(***************************************************************************)
MaxCycles == 2
MaxOrders == 2
MaxQueue == 2
MaxCalls == 3
MaxEntries == 2
MaxTicks == 2
MaxFrames == 4
MaxPreview == 3
MaxRetargets == 2
MaxClip == 1

(***************************************************************************)
(* RobotActivity (grasper.py:22-26).                                       *)
(***************************************************************************)
RobotActivity == {"STARTUP", "ACTIVE", "RESETTING", "FINISHED"}

(***************************************************************************)
(* File names.  A name is a sequence of characters.  "sup2" stands for the *)
(* character U+00B2 (superscript two): str.isdigit() accepts it and int()  *)
(* rejects it with ValueError.                                             *)
(***************************************************************************)
AsciiDigits == <<"0", "1", "2", "3", "4", "5", "6", "7", "8", "9">>

AsciiDigitSet == {AsciiDigits[i] : i \in 1..10}

DigitVal(c) == (CHOOSE i \in 1..10 : AsciiDigits[i] = c) - 1

\* Characters the initial directory entries are drawn from.
NameChars == {"0", "1", "a", "sup2"}

\* str.isdigit(): non-empty and every character is a digit character.
IsDigit(name) ==
    /\ Len(name) > 0
    /\ \A i \in 1..Len(name) : name[i] \in AsciiDigitSet \cup {"sup2"}

\* int(x) succeeds on a string that passed isdigit() iff it holds no "sup2".
IntRaises(name) == \E i \in 1..Len(name) : name[i] = "sup2"

RECURSIVE IntOf(_)
\* int(x) of a string of ASCII digits (leading zeros allowed).
IntOf(name) ==
    IF Len(name) = 0 THEN 0
    ELSE 10 * IntOf(SubSeq(name, 1, Len(name) - 1)) + DigitVal(name[Len(name)])

RECURSIVE StrOf(_)
\* str(n) for n >= 0.
StrOf(n) ==
    IF n < 10 THEN <<AsciiDigits[n + 1]>>
    ELSE StrOf(n \div 10) \o <<AsciiDigits[(n % 10) + 1]>>

SetMax(S) == CHOOSE m \in S : \A x \in S : x <= m

\* Mutant of NewId: the maximum is not incremented.
NewIdNoIncrement(session_ids) ==
    IF session_ids = {} THEN 0 ELSE SetMax(session_ids)

\* max(session_ids, default=0) + 1
NewId(session_ids) ==
    (IF session_ids = {} THEN 0 ELSE SetMax(session_ids)) + 1

\* The names os.listdir(base_dir) returns that pass the filter x.isdigit().
ListedNames(dir) == {e.name : e \in {x \in dir : IsDigit(x.name)}}

\* os.makedirs(session_dir/task) and os.makedirs(session_dir/restore), both with
\* exist_ok=True, below directory listing dir.  [raised, dir].
MakeSessionDirs(dir, sname) ==
    IF \E e \in dir : e.name = sname /\ e.kind = "file"
    THEN [raised |-> TRUE, dir |-> dir]
    ELSE [raised |-> FALSE,
          dir |-> {e \in dir : e.name # sname} \cup
                  {[name |-> sname, kind |-> "dir",
                    sub  |-> UNION {e.sub : e \in {x \in dir : x.name = sname}}
                             \cup {"task", "restore"}]}]

(***************************************************************************)
(* FileManager.get_session_dirs(base_dir) on directory listing dir.        *)
(* A directory is a set of entries [name, kind, sub]; sub is the set of    *)
(* children of a sub-directory.  Result: [raised, id, dir].                *)
(***************************************************************************)
GetSessionDirs(dir) ==
    LET names == ListedNames(dir)
    IN  IF \E n \in names : IntRaises(n)
        THEN [raised |-> TRUE, id |-> 0, dir |-> dir]
        ELSE LET new_id == NewId({IntOf(n) : n \in names})
                 made   == MakeSessionDirs(dir, StrOf(new_id))
             IN  [raised |-> made.raised,
                  id     |-> IF made.raised THEN 0 ELSE new_id,
                  dir    |-> made.dir]

(***************************************************************************)
(* threading.Event.set() on the shutdown event, whose flag is s.           *)
(***************************************************************************)
\* Mutant of SetSignal: the signal is left as it is.
SetSignalSkipped(s) == s

\* Mutant of SetSignal: setting a set signal clears it.
SetSignalToggles(s) == ~s

SetSignal(s) == TRUE

(***************************************************************************)
(* State.                                                                  *)
(***************************************************************************)
VARIABLES
    \* configuration (coordinator.py:47-53, grasper.py:65-71, recording.py:29-42)
    save_data,                  \* camera.record
    record_only_after_action,   \* camera.record_only_after_action
    clip_length,                \* camera.clip_length (0: not configured)
    \* threading.Event shared by all components (main.py:499)
    shutdown,
    \* AutograsperBase fields (grasper.py:54-60)
    state, failed, start_event, state_recorded_event, request_state_record,
    \* position of the task-runner thread in run_grasping
    gpc, gret, orders, cycles,
    \* monitor thread (_monitor_state) and the message queue
    mpc, msg_queue,
    \* relay thread (_process_messages)
    rpc, prev_state, cur_msg, session_id, fail_read,
    \* the experiment's base directory and the status.txt files written
    base_dir, status_log,
    \* Recorder fields (recording.py:52-73) and its capture thread
    cpc, take_snapshot, pause, stop_flag, rec_output_dir,
    \* history of the run (not program state)
    dir0, ids, pre_dir, last_call, occurred, fired, started, setup_ok,
    finish_req, raised, hook,
    \* position of the main thread (main.py:510-519, coordinator.py:189-202)
    jpc,
    \* Recorder: video writers open (recording.py:72-73), frame_counter
    \* (recording.py:70), the frames written and the records of states.json,
    \* each as <<output directory, frame_counter>>
    writers, frame_counter, frames, states_json,
    \* history: the last write of a capture tick that raised
    tick_err,
    \* preview: the Recorder's bottom_image buffer (0: None, n: the frame of
    \* the n-th refresh), the coordinator's ui_queue and the last result of
    \* get_ui_update (0: None)
    bottom_image, ui_queue, ui_got,
    \* the Recorder at the granularity of its locks: position, return address
    \* and refresh in hand of each thread that runs Recorder code
    tpc, tret, tn,
    \* image_lock and writer_lock (recording.py:63-64), as [owner, count]
    image_lock, writer_lock,
    \* the video writer pair (recording.py:72-73; 0: None, n: the n-th pair
    \* opened), the number of pairs opened, the pairs released with the thread
    \* that released each, and the writes made, as <<pair, frame_counter>>
    video_writer, opened, released, wrote,
    \* image_top and state of the Recorder (recording.py:55,158; 0: not set,
    \* n: of the n-th refresh), the number of refreshes fetched
    image_top, sensor_state, refreshes,
    \* what the monitor loop last read: <<bottom_image, state>>
    seen,
    \* the start_new_recording calls made
    retargets,
    \* the RLock of snapshot_cond (recording.py:66)
    snapshot_cond

config_vars == <<save_data, record_only_after_action, clip_length>>
grasper_vars == <<state, failed, start_event, state_recorded_event,
                  request_state_record, gpc, gret, orders, cycles>>
monitor_vars == <<mpc, msg_queue>>
relay_vars == <<rpc, prev_state, cur_msg, session_id, fail_read>>
fs_vars == <<base_dir, status_log>>
rec_vars == <<cpc, take_snapshot, pause, stop_flag, rec_output_dir>>
hist_vars == <<dir0, ids, pre_dir, last_call, occurred, fired, started,
               setup_ok, finish_req, raised, hook>>
run_hist == <<occurred, fired, started, setup_ok, finish_req, raised, hook>>

main_vars == <<jpc>>
log_vars == <<frame_counter, frames, states_json>>
out_vars == <<log_vars, writers, tick_err>>
\* The main thread and the Recorder's output.
ui_vars == <<bottom_image, ui_queue, ui_got>>
lock_vars == <<tpc, tret, tn, image_lock, writer_lock, video_writer, opened,
               released, wrote, image_top, sensor_state, refreshes, seen,
               retargets, snapshot_cond>>
outer_vars == <<main_vars, out_vars, ui_vars, lock_vars>>

vars == <<config_vars, shutdown, grasper_vars, monitor_vars, relay_vars,
          fs_vars, rec_vars, hist_vars, outer_vars>>

(***************************************************************************)
(* State after construction of grasper, coordinator (no Recorder yet) and  *)
(* start() of the three loops, on an empty experiment directory.           *)
(***************************************************************************)
\* The threads that run Recorder code.
Threads == {"capture", "relay", "monitor"}

\* A Recorder just constructed (recording.py:55-73) and its capture loop
\* submitted (coordinator.py:148-150).
InitLocks ==
    /\ tpc = [t \in Threads |-> IF t = "capture" THEN "start" ELSE "idle"]
    /\ tret = [t \in Threads |-> "idle"]
    /\ tn = [t \in Threads |-> 0]
    /\ image_lock = [owner |-> "none", count |-> 0]
    /\ writer_lock = [owner |-> "none", count |-> 0]
    /\ video_writer = 0 /\ opened = 0 /\ released = {} /\ wrote = <<>>
    /\ image_top = 0 /\ sensor_state = 0 /\ refreshes = 0
    /\ seen = <<0, 0>>
    /\ retargets = 0
    /\ snapshot_cond = [owner |-> "none", count |-> 0]

InitLoops ==
    /\ InitLocks
    /\ shutdown = FALSE
    /\ failed = FALSE
    /\ start_event = FALSE /\ state_recorded_event = FALSE
    /\ request_state_record = FALSE
    /\ gpc = "loop" /\ gret = "perform" /\ orders = 0
    /\ mpc = "top" /\ msg_queue = <<>>
    /\ rpc = "get" /\ prev_state = "STARTUP" /\ cur_msg = "STARTUP"
    /\ session_id = 0 /\ fail_read = FALSE
    /\ status_log = <<>>
    /\ cpc = "none" /\ take_snapshot = 0 /\ pause = FALSE
    /\ stop_flag = FALSE /\ rec_output_dir = <<0, "">>
    /\ ids = <<>> /\ pre_dir = {} /\ last_call = "none"
    /\ dir0 = base_dir
    /\ fired = <<>>
    /\ started = FALSE /\ setup_ok = FALSE /\ finish_req = FALSE /\ raised = FALSE
    /\ hook = "none"
    /\ jpc = "run"
    /\ writers = FALSE /\ frame_counter = 0
    /\ frames = <<>> /\ states_json = <<>>
    /\ tick_err = "none"
    /\ bottom_image = 0 /\ ui_queue = <<>> /\ ui_got = 0

InitThreads ==
    /\ state = "STARTUP" /\ cycles = 0 /\ occurred = <<>>
    /\ InitLoops

Init ==
    /\ save_data \in BOOLEAN
    /\ record_only_after_action \in BOOLEAN
    /\ clip_length = 0
    /\ base_dir = {}
    /\ InitThreads

(***************************************************************************)
(* The Session Directory Allocator on its own: successive calls of         *)
(* get_session_dirs on one base directory with arbitrary prior content.    *)
(***************************************************************************)
\* Entry names of one or two characters.
Names == {<<c>> : c \in NameChars} \cup {<<c, d>> : c, d \in NameChars}

Entries == [name : Names, kind : {"file", "dir"}, sub : {{}}]

RECURSIVE DirsUpTo(_)
\* The directories of at most n entries; a directory holds one entry per name.
DirsUpTo(n) ==
    IF n = 0 THEN {{}}
    ELSE LET P == DirsUpTo(n - 1)
         IN  P \cup {d \cup {e} : <<d, e>> \in
                        {x \in P \X Entries : \A f \in x[1] : f.name # x[2].name}}

InitFM ==
    /\ save_data = TRUE
    /\ record_only_after_action = FALSE
    /\ clip_length = 0
    /\ base_dir \in DirsUpTo(MaxEntries)
    /\ InitThreads

\* One call FileManager.get_session_dirs(base_dir) (file_manager.py:10-20).
FMGetSessionDirs ==
    /\ Len(ids) < MaxCalls
    /\ last_call # "raised"
    /\ LET r == GetSessionDirs(base_dir)
       IN  /\ base_dir' = r.dir
           /\ pre_dir' = base_dir
           /\ last_call' = IF r.raised THEN "raised" ELSE "returned"
           /\ ids' = IF r.raised THEN ids ELSE Append(ids, r.id)
    /\ UNCHANGED <<config_vars, outer_vars, shutdown, grasper_vars, monitor_vars,
                   relay_vars, status_log, rec_vars, dir0, run_hist>>

\* The session just allocated ends: status.txt is written into its directory
\* (coordinator.py:163-165); a failed session leaves its directory in place.
WriteStatus(dir, sid) ==
    {IF e.name = StrOf(sid) /\ e.kind = "dir"
     THEN [e EXCEPT !.sub = @ \cup {"status.txt"}] ELSE e : e \in dir}

FMSessionEnds ==
    /\ last_call = "returned"
    /\ \E status \in {"success", "fail"} :
          /\ base_dir' = WriteStatus(base_dir, ids[Len(ids)])
          /\ status_log' = Append(status_log, <<ids[Len(ids)], status>>)
    /\ last_call' = "ended"
    /\ UNCHANGED <<config_vars, outer_vars, shutdown, grasper_vars, monitor_vars,
                   relay_vars, rec_vars, dir0, ids, pre_dir, run_hist>>

NextFM == FMGetSessionDirs \/ FMSessionEnds

SpecFM == InitFM /\ [][NextFM]_vars

(***************************************************************************)
(* The worker pool (coordinator.py:180-187,202).                           *)
(***************************************************************************)
\* The three futures join() waits on (coordinator.py:183-187).
FutureRaised == gpc = "crashed" \/ rpc = "crashed"

FuturesDone ==
    /\ gpc \in {"done", "crashed"}
    /\ mpc = "done"
    /\ rpc \in {"done", "crashed"}

\* Mutant of PoolThreadsEnded: only the three futures are awaited.
OnlyFuturesEnded == FuturesDone

\* Every worker thread of the pool has ended; a Recorder whose capture loop
\* the pool rejected runs no thread.
PoolThreadsEnded == FuturesDone /\ cpc \in {"none", "rejected", "done"}

\* ThreadPoolExecutor.shutdown has been called: submit() raises from then on.
PoolShut == jpc \in {"pool", "returned"}

(***************************************************************************)
(* Task Runner: AutograsperBase.run_grasping (grasper.py:104-137).         *)
(***************************************************************************)
\* The while condition fails (grasper.py:111): the loop exits.
GExit ==
    /\ gpc = "loop"
    /\ state = "FINISHED" \/ shutdown
    /\ gpc' = "done"
    /\ UNCHANGED <<config_vars, outer_vars, shutdown, state, failed, start_event,
                   state_recorded_event, request_state_record, gret, orders,
                   cycles, monitor_vars, relay_vars, fs_vars, rec_vars,
                   hist_vars>>

\* STARTUP branch (grasper.py:112-114): startup(), then state = ACTIVE.
GStartup ==
    /\ gpc = "loop" /\ ~shutdown /\ state = "STARTUP"
    /\ cycles < MaxCycles
    /\ state' = "ACTIVE"
    /\ cycles' = cycles + 1
    /\ orders' = 0
    /\ occurred' = Append(occurred, "ACTIVE")
    /\ started' = FALSE /\ setup_ok' = FALSE
    /\ UNCHANGED <<config_vars, outer_vars, shutdown, failed, start_event,
                   state_recorded_event, request_state_record, gpc, gret,
                   monitor_vars, relay_vars, fs_vars, rec_vars, dir0, ids,
                   pre_dir, last_call, fired, finish_req, raised, hook>>

\* ACTIVE branch (grasper.py:115-116): enter wait_for_start_signal.
GEnterWait ==
    /\ gpc = "loop" /\ ~shutdown /\ state = "ACTIVE"
    /\ gpc' = "wait_start"
    /\ UNCHANGED <<config_vars, outer_vars, shutdown, state, failed, start_event,
                   state_recorded_event, request_state_record, gret, orders,
                   cycles, monitor_vars, relay_vars, fs_vars, rec_vars,
                   hist_vars>>

\* Mutant of ClearedEvent: the start signal is left set.
ClearedEventKept(e) == e

\* wait_for_start_signal (grasper.py:101): start_event.clear().
ClearedEvent(e) == FALSE

\* wait_for_start_signal (grasper.py:97-102): the event is set; it is cleared
\* and the wait returns.
GStartSignaled ==
    /\ gpc = "wait_start" /\ ~shutdown /\ start_event
    /\ start_event' = ClearedEvent(start_event)
    /\ started' = TRUE
    /\ gpc' = "perform"
    /\ UNCHANGED <<config_vars, outer_vars, shutdown, state, failed, state_recorded_event,
                   request_state_record, gret, orders, cycles, monitor_vars,
                   relay_vars, fs_vars, rec_vars, dir0, ids, pre_dir,
                   last_call, occurred, fired, setup_ok, finish_req, raised,
                   hook>>

\* wait_for_start_signal (grasper.py:99): the shutdown event ends the wait; the
\* caller goes on to perform_task (grasper.py:116-118).
GStartShutdown ==
    /\ gpc = "wait_start" /\ shutdown
    /\ gpc' = "perform"
    /\ UNCHANGED <<config_vars, outer_vars, shutdown, state, failed, start_event,
                   state_recorded_event, request_state_record, gret, orders,
                   cycles, monitor_vars, relay_vars, fs_vars, rec_vars,
                   hist_vars>>

\* queue_orders (grasper.py:188-198) inside perform_task or a reset hook: one
\* order is executed and, under record_only_after_action, followed by
\* record_current_state().
GOrder ==
    /\ gpc \in {"perform", "hook"}
    /\ ~shutdown
    /\ record_only_after_action
    /\ state \in {"ACTIVE", "RESETTING"}
    /\ orders < MaxOrders
    /\ orders' = orders + 1
    /\ gret' = gpc
    /\ gpc' = "rcs_set"
    /\ UNCHANGED <<config_vars, outer_vars, shutdown, state, failed, start_event,
                   state_recorded_event, request_state_record, cycles,
                   monitor_vars, relay_vars, fs_vars, rec_vars, hist_vars>>

\* record_current_state (grasper.py:91).
GRcsSet ==
    /\ gpc = "rcs_set"
    /\ request_state_record' = TRUE
    /\ gpc' = "rcs_clear"
    /\ UNCHANGED <<config_vars, outer_vars, shutdown, state, failed, start_event,
                   state_recorded_event, gret, orders, cycles, monitor_vars,
                   relay_vars, fs_vars, rec_vars, hist_vars>>

\* record_current_state (grasper.py:92).
GRcsClear ==
    /\ gpc = "rcs_clear"
    /\ state_recorded_event' = FALSE
    /\ gpc' = "rcs_wait"
    /\ UNCHANGED <<config_vars, outer_vars, shutdown, state, failed, start_event,
                   request_state_record, gret, orders, cycles, monitor_vars,
                   relay_vars, fs_vars, rec_vars, hist_vars>>

\* record_current_state (grasper.py:93-95): returns once the acknowledgement
\* gate is set or the shutdown event is set.
GRcsReturn ==
    /\ gpc = "rcs_wait"
    /\ shutdown \/ state_recorded_event
    /\ gpc' = gret
    /\ UNCHANGED <<config_vars, outer_vars, shutdown, state, failed, start_event,
                   state_recorded_event, request_state_record, gret, orders,
                   cycles, monitor_vars, relay_vars, fs_vars, rec_vars,
                   hist_vars>>

\* Mutant of BreaksAfterTask: only the shutdown event ends the loop.
BreaksOnShutdownOnly(st, sd) == sd

\* grasper.py:124: whether the loop is left after perform_task, on state st
\* and shutdown flag sd.
BreaksAfterTask(st, sd) == sd \/ st = "FINISHED"

\* How a perform_task implementation ends:
\*   "ok"       returns (grasper.py:144-154),
\*   "softfail" sets self.failed and returns (my_custom_grasper.py:39-50),
\*   "finish"   sets state = FINISHED (manual_grasper.py:19,
\*              calibrate_grasper.py:19),
\*   "raise"    raises.
Outcomes == {"ok", "softfail", "finish", "raise"}

\* perform_task returns or raises, then grasper.py:119-126; a perform_task
\* that sets FINISHED does so as its last statement and returns to
\* grasper.py:124 (GAfterTask).
GPerformEnd(outcome) ==
    /\ gpc = "perform"
    /\ CASE outcome = "raise" ->
              \* grasper.py:119-122: failed is set and the exception is re-raised
              \* out of run_grasping; line 123 is never reached.
              /\ failed' = TRUE
              /\ raised' = TRUE
              /\ gpc' = "crashed"
              /\ UNCHANGED <<state, occurred, finish_req>>
         [] outcome = "finish" ->
              /\ state' = "FINISHED"
              /\ finish_req' = TRUE
              /\ gpc' = "after_task"
              /\ occurred' = Append(occurred, "FINISHED")
              /\ UNCHANGED <<failed, raised>>
         [] OTHER ->
              /\ failed' = (failed \/ outcome = "softfail")
              /\ IF BreaksAfterTask(state, shutdown)
                 THEN gpc' = "done" /\ UNCHANGED <<state, occurred>>
                 ELSE /\ state' = "RESETTING"
                      /\ gpc' = "loop"
                      /\ occurred' = Append(occurred, "RESETTING")
              /\ UNCHANGED <<finish_req, raised>>
    /\ UNCHANGED <<config_vars, outer_vars, shutdown, start_event, state_recorded_event,
                   request_state_record, gret, orders, cycles, monitor_vars,
                   relay_vars, fs_vars, rec_vars, dir0, ids, pre_dir,
                   last_call, fired, started, setup_ok, hook>>

\* grasper.py:124-126 after a perform_task that set FINISHED.
GAfterTask ==
    /\ gpc = "after_task"
    /\ IF BreaksAfterTask(state, shutdown)
       THEN gpc' = "done" /\ UNCHANGED <<state, occurred>>
       ELSE /\ state' = "RESETTING"
            /\ gpc' = "loop"
            /\ occurred' = Append(occurred, "RESETTING")
    /\ UNCHANGED <<config_vars, outer_vars, shutdown, failed, start_event,
                   state_recorded_event, request_state_record, gret, orders,
                   cycles, monitor_vars, relay_vars, fs_vars, rec_vars, dir0,
                   ids, pre_dir, last_call, fired, started, setup_ok,
                   finish_req, raised, hook>>

\* RESETTING branch (grasper.py:127-128): enter the settle margin.
GSettle ==
    /\ gpc = "loop" /\ ~shutdown /\ state = "RESETTING"
    /\ gpc' = "settle"
    /\ UNCHANGED <<config_vars, outer_vars, shutdown, state, failed, start_event,
                   state_recorded_event, request_state_record, gret, orders,
                   cycles, monitor_vars, relay_vars, fs_vars, rec_vars,
                   hist_vars>>

\* Mutant of HookFor: reset_task runs whatever the failed flag is.
HookForAlwaysReset(f) == "reset"

\* grasper.py:129-134: the hook run in RESETTING, on failed flag f.
HookFor(f) == IF f THEN "recover" ELSE "reset"

\* grasper.py:129-134: after sleep_with_shutdown, the hook is chosen by failed.
GHookBegin ==
    /\ gpc = "settle"
    /\ hook' = HookFor(failed)
    /\ gpc' = "hook"
    /\ UNCHANGED <<config_vars, outer_vars, shutdown, state, failed, start_event,
                   state_recorded_event, request_state_record, gret, orders,
                   cycles, monitor_vars, relay_vars, fs_vars, rec_vars, dir0,
                   ids, pre_dir, last_call, occurred, fired, started,
                   setup_ok, finish_req, raised>>

\* Mutant of StateAfterReset: the next cycle is entered directly.
StateAfterResetActive == "ACTIVE"

\* grasper.py:135.
StateAfterReset == "STARTUP"

\* grasper.py:131-135: the hook returns; failed is cleared after recovery;
\* state = STARTUP.
GHookEnd ==
    /\ gpc = "hook"
    /\ failed' = IF hook = "recover" THEN FALSE ELSE failed
    /\ state' = StateAfterReset
    /\ gpc' = "loop"
    /\ occurred' = Append(occurred, StateAfterReset)
    /\ UNCHANGED <<config_vars, outer_vars, shutdown, start_event, state_recorded_event,
                   request_state_record, gret, orders, cycles, monitor_vars,
                   relay_vars, fs_vars, rec_vars, dir0, ids, pre_dir,
                   last_call, fired, started, setup_ok, finish_req, raised,
                   hook>>

Grasper ==
    \/ GExit \/ GStartup \/ GEnterWait \/ GStartSignaled \/ GStartShutdown
    \/ GOrder \/ GRcsSet \/ GRcsClear \/ GRcsReturn
    \/ \E outcome \in Outcomes : GPerformEnd(outcome)
    \/ GAfterTask \/ GSettle \/ GHookBegin \/ GHookEnd

(***************************************************************************)
(* Monitor loop: DataCollectionCoordinator._monitor_state                  *)
(* (coordinator.py:59-79) and _check_if_record_is_requested (81-91).       *)
(***************************************************************************)
\* coordinator.py:63: the loop condition fails.
MExit ==
    /\ mpc = "top" /\ shutdown
    /\ mpc' = "done"
    /\ UNCHANGED <<config_vars, outer_vars, shutdown, grasper_vars, msg_queue, relay_vars,
                   fs_vars, rec_vars, hist_vars>>

\* coordinator.py:65-66: post the Task Runner's current state.
MPut ==
    /\ mpc = "top" /\ ~shutdown
    /\ Len(msg_queue) < MaxQueue
    /\ msg_queue' = Append(msg_queue, state)
    /\ mpc' = "check"
    /\ UNCHANGED <<config_vars, outer_vars, shutdown, grasper_vars, relay_vars, fs_vars,
                   rec_vars, hist_vars>>

\* coordinator.py:82-87: a request is pending and a Recorder exists: the
\* counter is incremented under snapshot_cond; otherwise the tick ends
\* (coordinator.py:71-79).
MCheck ==
    /\ mpc = "check"
    /\ IF request_state_record /\ cpc # "none"
       THEN /\ take_snapshot' = take_snapshot + 1
            /\ mpc' = "snap_wait"
       ELSE /\ mpc' = "top"
            /\ UNCHANGED take_snapshot
    /\ UNCHANGED <<config_vars, outer_vars, shutdown, grasper_vars, msg_queue, relay_vars,
                   fs_vars, cpc, pause, stop_flag, rec_output_dir, hist_vars>>

\* Mutant of SnapshotServed: the wait ends while one request is pending.
SnapshotServedOnOne(n) == ~(n > 1)

\* Mutant of SnapshotServed: the monitor loop does not wait.
SnapshotServedAtOnce(n) == TRUE

\* coordinator.py:88: the wait's loop condition fails on counter value n.
SnapshotServed(n) == ~(n > 0)

\* coordinator.py:88-89: the wait on snapshot_cond ends when the counter is no
\* longer positive; each 1.0 s timeout re-tests only the counter.
MSnapWait ==
    /\ mpc = "snap_wait"
    /\ SnapshotServed(take_snapshot)
    /\ mpc' = "clear_flag"
    /\ UNCHANGED <<config_vars, outer_vars, shutdown, grasper_vars, msg_queue, relay_vars,
                   fs_vars, rec_vars, hist_vars>>

\* coordinator.py:90.
MClearFlag ==
    /\ mpc = "clear_flag"
    /\ request_state_record' = FALSE
    /\ mpc' = "set_event"
    /\ UNCHANGED <<config_vars, outer_vars, shutdown, state, failed, start_event,
                   state_recorded_event, gpc, gret, orders, cycles, msg_queue,
                   relay_vars, fs_vars, rec_vars, hist_vars>>

\* coordinator.py:91, then the rest of the tick (71-79).
MSetEvent ==
    /\ mpc = "set_event"
    /\ state_recorded_event' = TRUE
    /\ mpc' = "top"
    /\ UNCHANGED <<config_vars, outer_vars, shutdown, state, failed, start_event,
                   request_state_record, gpc, gret, orders, cycles, msg_queue,
                   relay_vars, fs_vars, rec_vars, hist_vars>>

Monitor == MExit \/ MPut \/ MCheck \/ MSnapWait \/ MClearFlag \/ MSetEvent

(***************************************************************************)
(* Relay loop: DataCollectionCoordinator._process_messages                 *)
(* (coordinator.py:93-119) and the state-entry handlers (121-173).         *)
(***************************************************************************)
\* coordinator.py:99: the loop condition fails.
RExit ==
    /\ rpc = "get" /\ shutdown
    /\ rpc' = "done"
    /\ UNCHANGED <<config_vars, outer_vars, shutdown, grasper_vars, monitor_vars,
                   prev_state, cur_msg, session_id, fail_read, fs_vars,
                   rec_vars, hist_vars>>

\* The handler a changed state is dispatched to (coordinator.py:108-117).
HandlerOf(s) ==
    CASE s = "ACTIVE" -> "on_active"
      [] s = "RESETTING" -> "on_resetting"
      [] s = "FINISHED" -> "on_finished"
      [] OTHER -> "on_startup"

\* Mutant of StateChanged: every message counts as a change.
StateChangedAlways(msg) == TRUE

\* coordinator.py:107: current_state != prev_state.
StateChanged(msg) == msg # prev_state

\* coordinator.py:100-108,119: dequeue one state_update; a state different
\* from prev_state starts the state-entry handling.
RDequeue ==
    /\ rpc = "get" /\ ~shutdown
    /\ msg_queue # <<>>
    /\ msg_queue' = Tail(msg_queue)
    /\ cur_msg' = Head(msg_queue)
    /\ IF StateChanged(Head(msg_queue))
       THEN /\ rpc' = HandlerOf(Head(msg_queue))
            /\ fired' = Append(fired, Head(msg_queue))
       ELSE UNCHANGED <<rpc, fired>>
    /\ UNCHANGED <<config_vars, outer_vars, shutdown, grasper_vars, mpc, prev_state,
                   session_id, fail_read, fs_vars, rec_vars, dir0, ids,
                   pre_dir, last_call, occurred, started, setup_ok,
                   finish_req, raised, hook>>

\* _on_state_transition (coordinator.py:121-124): entering STARTUP from another
\* state pauses the Recorder, if there is one.
ROnStartup ==
    /\ rpc = "on_startup"
    /\ IF cpc # "none"
       THEN /\ pause' = TRUE
            /\ rpc' = "paused"
            /\ UNCHANGED prev_state
       ELSE /\ prev_state' = cur_msg
            /\ rpc' = "get"
            /\ UNCHANGED pause
    /\ UNCHANGED <<config_vars, outer_vars, shutdown, grasper_vars, monitor_vars, cur_msg,
                   session_id, fail_read, fs_vars, cpc, take_snapshot,
                   stop_flag, rec_output_dir, hist_vars>>

\* coordinator.py:125-126,118: after the inter-experiment delay the Recorder
\* is resumed.
RResume ==
    /\ rpc = "paused"
    /\ pause' = FALSE
    /\ prev_state' = cur_msg
    /\ rpc' = "get"
    /\ UNCHANGED <<config_vars, outer_vars, shutdown, grasper_vars, monitor_vars, cur_msg,
                   session_id, fail_read, fs_vars, cpc, take_snapshot,
                   stop_flag, rec_output_dir, hist_vars>>

\* Mutant of RecorderMissing: a Recorder is created on every ACTIVE entry.
RecorderMissingAlways(c) == TRUE

\* coordinator.py:147: no Recorder has been created, on capture position c.
RecorderMissing(c) == c = "none"

\* Mutant of TaskDir: the Recorder is pointed at the restore directory.
TaskDirIsRestore(id) == <<id, "restore">>

\* file_manager.py:15-16: the task directory of session id.
TaskDir(id) == <<id, "task">>

\* Entering ACTIVE (coordinator.py:109-112,128-141,146-157): with save_data a
\* new session is allocated; the Recorder is created and its capture loop
\* submitted if there is none; with save_data start_new_recording(task_dir)
\* re-targets it (recording.py:228-239).  submit() raises once the pool has
\* been shut down: the Recorder then exists and no capture loop runs.
ROnActive ==
    /\ rpc = "on_active"
    /\ LET r == GetSessionDirs(base_dir)
           rejected == RecorderMissing(cpc) /\ PoolShut
       IN  IF save_data /\ r.raised
           THEN /\ rpc' = "crashed"
                /\ last_call' = "raised"
                /\ pre_dir' = base_dir
                /\ UNCHANGED <<session_id, base_dir, ids, cpc, stop_flag,
                               rec_output_dir, writers>>
           ELSE /\ rpc' = IF rejected THEN "crashed" ELSE "fire"
                /\ IF save_data
                   THEN /\ base_dir' = r.dir
                        /\ session_id' = r.id
                        /\ ids' = Append(ids, r.id)
                        /\ pre_dir' = base_dir
                        /\ last_call' = "returned"
                        /\ rec_output_dir' = TaskDir(r.id)
                        /\ stop_flag' = IF rejected THEN stop_flag ELSE FALSE
                        /\ writers' = IF rejected THEN writers ELSE TRUE
                   ELSE /\ UNCHANGED <<base_dir, session_id, ids, pre_dir,
                                       last_call, stop_flag, writers>>
                        /\ rec_output_dir' =
                             IF RecorderMissing(cpc) THEN <<session_id, "">>
                             ELSE rec_output_dir
                /\ cpc' = IF ~RecorderMissing(cpc) THEN cpc
                          ELSE IF rejected THEN "rejected" ELSE "start"
    /\ UNCHANGED <<config_vars, lock_vars, main_vars, ui_vars, log_vars, tick_err, shutdown, grasper_vars, monitor_vars,
                   prev_state, cur_msg, fail_read, status_log, take_snapshot,
                   pause, dir0, run_hist>>

\* Whether the Recorder exists and targets the current task directory.
RecorderOnTaskDir ==
    /\ cpc # "none"
    /\ rec_output_dir = <<session_id, IF save_data THEN "task" ELSE "">>
    /\ save_data => session_id = ids[Len(ids)]

\* coordinator.py:143-144,118: after the settle delay the start signal fires.
RFire ==
    /\ rpc = "fire"
    /\ start_event' = TRUE
    /\ setup_ok' = RecorderOnTaskDir
    /\ prev_state' = cur_msg
    /\ rpc' = "get"
    /\ UNCHANGED <<config_vars, outer_vars, shutdown, state, failed, state_recorded_event,
                   request_state_record, gpc, gret, orders, cycles,
                   monitor_vars, cur_msg, session_id, fail_read, fs_vars,
                   rec_vars, dir0, ids, pre_dir, last_call, occurred, fired,
                   started, finish_req, raised, hook>>

\* Entering RESETTING (coordinator.py:159-168,118): the status is read from
\* the failed flag; with save_data status.txt is written into session_dir and
\* the Recorder re-targeted to restore_dir.
ROnResetting ==
    /\ rpc = "on_resetting"
    /\ fail_read' = failed
    /\ IF save_data
       THEN /\ status_log' = Append(status_log,
                               <<session_id, IF failed THEN "fail" ELSE "success">>)
            /\ base_dir' = WriteStatus(base_dir, session_id)
            /\ IF cpc # "none"
               THEN /\ rec_output_dir' = <<session_id, "restore">>
                    /\ stop_flag' = FALSE
                    /\ writers' = TRUE
               ELSE UNCHANGED <<rec_output_dir, stop_flag, writers>>
       ELSE UNCHANGED <<status_log, base_dir, rec_output_dir, stop_flag,
                        writers>>
    /\ prev_state' = cur_msg
    /\ rpc' = "get"
    /\ UNCHANGED <<config_vars, lock_vars, main_vars, ui_vars, log_vars, tick_err, shutdown, grasper_vars, monitor_vars, cur_msg,
                   session_id, cpc, take_snapshot, pause, hist_vars>>

\* Entering FINISHED (coordinator.py:115-117,170-173): the Recorder is
\* stopped and the relay loop is left.
ROnFinished ==
    /\ rpc = "on_finished"
    /\ stop_flag' = (IF cpc # "none" THEN TRUE ELSE stop_flag)
    /\ rpc' = "done"
    /\ UNCHANGED <<config_vars, outer_vars, shutdown, grasper_vars, monitor_vars,
                   prev_state, cur_msg, session_id, fail_read, fs_vars, cpc,
                   take_snapshot, pause, rec_output_dir, hist_vars>>

Relay ==
    \/ RExit \/ RDequeue \/ ROnStartup \/ RResume \/ ROnActive \/ RFire
    \/ ROnResetting \/ ROnFinished

(***************************************************************************)
(* Capture loop: Recorder.record (recording.py:111-147).                   *)
(***************************************************************************)
\* recording.py:113,235-239: _prepare_new_recording at the start of record().
CStart ==
    /\ cpc = "start"
    /\ stop_flag' = FALSE
    /\ writers' = TRUE
    /\ cpc' = "loop"
    /\ UNCHANGED <<config_vars, lock_vars, main_vars, ui_vars, log_vars, tick_err, shutdown, grasper_vars, monitor_vars,
                   relay_vars, fs_vars, take_snapshot, pause, rec_output_dir,
                   hist_vars>>

\* recording.py:115,146-147: the loop condition fails; writers are released.
CExit ==
    /\ cpc = "loop"
    /\ stop_flag \/ shutdown
    /\ cpc' = "done"
    /\ writers' = FALSE
    /\ UNCHANGED <<config_vars, lock_vars, main_vars, ui_vars, log_vars, tick_err, shutdown, grasper_vars, monitor_vars,
                   relay_vars, fs_vars, take_snapshot, pause, stop_flag,
                   rec_output_dir, hist_vars>>

\* Mutant of TickRuns: the pause flag is not tested.
TickRunsPaused(p) == TRUE

\* recording.py:116: whether an iteration of the capture loop runs a tick, on
\* pause flag p.
TickRuns(p) == ~p

\* Mutant of ShouldPersist: every tick persists.
ShouldPersistAlways(n) == TRUE

\* recording.py:123: whether a tick persists, on counter value n.
ShouldPersist(n) == (~record_only_after_action) \/ n > 0

\* recording.py:116-123: not paused, the buffers are refreshed and the tick
\* persists: always without record_only_after_action, else only while the
\* counter is positive.  (A tick that does not persist changes nothing.)
CUpdate ==
    /\ cpc = "loop"
    /\ ~stop_flag /\ ~shutdown /\ TickRuns(pause)
    /\ ShouldPersist(take_snapshot)
    /\ cpc' = "capture"
    /\ UNCHANGED <<config_vars, outer_vars, shutdown, grasper_vars, monitor_vars,
                   relay_vars, fs_vars, take_snapshot, pause, stop_flag,
                   rec_output_dir, hist_vars>>

\* recording.py:117,143-147,160-162: the sensor refresh raises; the exception
\* leaves the loop, the shutdown event is set and the writers are released.
CUpdateFails ==
    /\ cpc = "loop"
    /\ ~stop_flag /\ ~shutdown /\ TickRuns(pause)
    /\ shutdown' = SetSignal(shutdown)
    /\ cpc' = "done"
    /\ writers' = FALSE
    /\ UNCHANGED <<config_vars, lock_vars, main_vars, ui_vars, log_vars, tick_err, grasper_vars, monitor_vars, relay_vars,
                   fs_vars, take_snapshot, pause, stop_flag, rec_output_dir,
                   hist_vars>>

\* Mutant of Decrement: the counter is left as it is.
DecrementNever(n) == n

\* Mutant of Decrement: the counter is decremented without the test.
DecrementUnguarded(n) == n - 1

\* _capture_frame's finally block (recording.py:186-191) on counter n.
Decrement(n) == IF n > 0 THEN n - 1 ELSE n

\* recording.py:124-138: with save_data _capture_frame runs; then the frame
\* interval, save_state and the frame counter.
CCapture ==
    /\ cpc = "capture"
    /\ take_snapshot' = IF save_data THEN Decrement(take_snapshot)
                        ELSE take_snapshot
    /\ cpc' = "loop"
    /\ UNCHANGED <<config_vars, outer_vars, shutdown, grasper_vars, monitor_vars,
                   relay_vars, fs_vars, pause, stop_flag, rec_output_dir,
                   hist_vars>>

Capture == CStart \/ CExit \/ CUpdate \/ CUpdateFails \/ CCapture

(***************************************************************************)
(* The persisting tick at the granularity of its two writes: the frame     *)
(* (_capture_frame) and, after the frame interval, the state record        *)
(* (save_state).  Video mode, no clip length configured.                   *)
(***************************************************************************)
\* recording.py:124-125,164-191: _capture_frame writes the frame pair to the
\* writers, which were opened in the output directory; an exception of the
\* write is logged and absorbed (recording.py:184-185); the finally block
\* decrements the counter.
KFrame(outcome) ==
    /\ cpc = "capture"
    /\ frame_counter < MaxTicks
    /\ IF save_data
       THEN /\ frames' = IF outcome = "written" /\ writers
                         THEN Append(frames, <<rec_output_dir, frame_counter>>)
                         ELSE frames
            /\ tick_err' = IF outcome = "raised" THEN "frame" ELSE tick_err
            /\ take_snapshot' = Decrement(take_snapshot)
       ELSE /\ outcome = "written"
            /\ UNCHANGED <<frames, tick_err, take_snapshot>>
    /\ cpc' = "state"
    /\ UNCHANGED <<config_vars, lock_vars, main_vars, ui_vars, frame_counter, states_json,
                   writers, shutdown, grasper_vars, monitor_vars,
                   relay_vars, fs_vars, pause, stop_flag, rec_output_dir,
                   hist_vars>>

\* recording.py:135-138,246-265: after the frame interval save_state appends
\* the state record to states.json of the current output directory; an
\* exception is logged and absorbed (recording.py:264-265); then
\* frame_counter += 1.
KSaveState(outcome) ==
    /\ cpc = "state"
    /\ IF save_data
       THEN /\ states_json' =
                 IF outcome = "saved"
                 THEN Append(states_json, <<rec_output_dir, frame_counter>>)
                 ELSE states_json
            /\ tick_err' = IF outcome = "raised" THEN "state" ELSE tick_err
       ELSE /\ outcome = "saved"
            /\ UNCHANGED <<states_json, tick_err>>
    /\ frame_counter' = frame_counter + 1
    /\ cpc' = "loop"
    /\ UNCHANGED <<config_vars, lock_vars, main_vars, ui_vars, frames, writers, shutdown,
                   grasper_vars, monitor_vars, relay_vars, fs_vars,
                   take_snapshot, pause, stop_flag, rec_output_dir,
                   hist_vars>>

CaptureRec ==
    \/ CStart \/ CExit \/ CUpdate \/ CUpdateFails
    \/ \E outcome \in {"written", "raised"} : KFrame(outcome)
    \/ \E outcome \in {"saved", "raised"} : KSaveState(outcome)

(***************************************************************************)
(* Main thread: main.py:510-519 and DataCollectionCoordinator.join         *)
(* (coordinator.py:189-202).                                               *)
(***************************************************************************)
\* main.py:517-519: the application stops; the shutdown event is set (also
\* when it is set already) and join() is called.
MainStop ==
    /\ jpc = "run"
    /\ shutdown' = SetSignal(shutdown)
    /\ jpc' = "wait"
    /\ UNCHANGED <<config_vars, lock_vars, out_vars, ui_vars, grasper_vars, monitor_vars, relay_vars,
                   fs_vars, rec_vars, hist_vars>>

\* join() called by a caller that did not set the shutdown event first
\* (coordinator.py:189-194).
JoinCall ==
    /\ jpc = "run"
    /\ jpc' = "wait"
    /\ UNCHANGED <<config_vars, lock_vars, out_vars, ui_vars, shutdown, grasper_vars, monitor_vars,
                   relay_vars, fs_vars, rec_vars, hist_vars>>

\* coordinator.py:194-201: wait(FIRST_EXCEPTION) returns once a future has
\* raised or all three have finished; the shutdown event is set.
JWaitDone ==
    /\ jpc = "wait"
    /\ FutureRaised \/ FuturesDone
    /\ shutdown' = SetSignal(shutdown)
    /\ jpc' = "pool"
    /\ UNCHANGED <<config_vars, lock_vars, out_vars, ui_vars, grasper_vars, monitor_vars, relay_vars,
                   fs_vars, rec_vars, hist_vars>>

\* coordinator.py:202: executor.shutdown(wait=True) returns once every worker
\* thread has ended; join() returns.
JReturn ==
    /\ jpc = "pool"
    /\ PoolThreadsEnded
    /\ jpc' = "returned"
    /\ UNCHANGED <<config_vars, lock_vars, out_vars, ui_vars, shutdown, grasper_vars, monitor_vars,
                   relay_vars, fs_vars, rec_vars, hist_vars>>

Main == MainStop \/ JoinCall \/ JWaitDone \/ JReturn

Next == Grasper \/ Monitor \/ Relay \/ Capture \/ Main

Spec == Init /\ [][Next]_vars

(***************************************************************************)
(* One cycle with recording enabled, from the Task Runner's first entry    *)
(* into ACTIVE (grasper.py:112-114 done once), with the capture tick at    *)
(* the granularity of its writes.                                          *)
(***************************************************************************)
InitRec ==
    /\ save_data = TRUE
    /\ record_only_after_action \in BOOLEAN
    /\ clip_length = 0
    /\ base_dir = {}
    /\ state = "ACTIVE" /\ cycles = 1 /\ occurred = <<"ACTIVE">>
    /\ InitLoops

GrasperRec ==
    \/ GExit \/ GEnterWait \/ GStartSignaled \/ GStartShutdown
    \/ GOrder \/ GRcsSet \/ GRcsClear \/ GRcsReturn
    \/ \E outcome \in Outcomes : GPerformEnd(outcome)
    \/ GAfterTask \/ GSettle \/ GHookBegin \/ GHookEnd

NextRec == GrasperRec \/ Monitor \/ Relay \/ Main \/ CaptureRec

SpecRec == InitRec /\ [][NextRec]_vars

(***************************************************************************)
(* The preview channel on its own: the Recorder's refresh of bottom_image, *)
(* the monitor tick's relay of it to ui_queue and the consumer's           *)
(* get_ui_update, from the state in which the relay has handled the first  *)
(* ACTIVE entry without recording and the capture loop has started.        *)
(***************************************************************************)
InitUI ==
    /\ save_data = FALSE /\ record_only_after_action = FALSE
    /\ clip_length = 0
    /\ InitLocks
    /\ base_dir = {} /\ dir0 = {} /\ status_log = <<>>
    /\ shutdown = FALSE
    /\ state = "ACTIVE" /\ failed = FALSE
    /\ start_event = TRUE /\ state_recorded_event = FALSE
    /\ request_state_record = FALSE
    /\ gpc = "wait_start" /\ gret = "perform" /\ orders = 0 /\ cycles = 1
    /\ mpc = "top" /\ msg_queue = <<>>
    /\ rpc = "get" /\ prev_state = "ACTIVE" /\ cur_msg = "ACTIVE"
    /\ session_id = 0 /\ fail_read = FALSE
    /\ cpc = "loop" /\ take_snapshot = 0 /\ pause = FALSE
    /\ stop_flag = FALSE /\ rec_output_dir = <<0, "">>
    /\ ids = <<>> /\ pre_dir = {} /\ last_call = "none"
    /\ occurred = <<"ACTIVE">> /\ fired = <<"ACTIVE">>
    /\ started = FALSE /\ setup_ok = TRUE /\ finish_req = FALSE
    /\ raised = FALSE /\ hook = "none"
    /\ jpc = "run"
    /\ writers = TRUE /\ frame_counter = 0
    /\ frames = <<>> /\ states_json = <<>>
    /\ tick_err = "none"
    /\ bottom_image = 0 /\ ui_queue = <<>> /\ ui_got = 0

\* Recorder._update (recording.py:152-157): the refresh replaces bottom_image.
UIRefresh ==
    /\ cpc = "loop" /\ TickRuns(pause)
    /\ bottom_image < MaxFrames
    /\ bottom_image' = bottom_image + 1
    /\ UNCHANGED <<config_vars, lock_vars, main_vars, out_vars, ui_queue, ui_got,
                   shutdown, grasper_vars, monitor_vars, relay_vars, fs_vars,
                   rec_vars, hist_vars>>

\* _monitor_state (coordinator.py:70-79): with a Recorder whose bottom_image
\* is not None, a copy of it is put on ui_queue.
UIRelay ==
    /\ mpc = "top" /\ ~shutdown
    /\ cpc # "none" /\ bottom_image # 0
    /\ Len(ui_queue) < MaxPreview
    /\ ui_queue' = Append(ui_queue, bottom_image)
    /\ UNCHANGED <<config_vars, lock_vars, main_vars, out_vars, bottom_image, ui_got,
                   shutdown, grasper_vars, monitor_vars, relay_vars, fs_vars,
                   rec_vars, hist_vars>>

\* Queue.get (coordinator.py:210): the message get() takes from queue q.
Pulled(q) == Head(q)

\* What Queue.get leaves in queue q.
AfterPull(q) == Tail(q)

\* get_ui_update (coordinator.py:204-212): the head of ui_queue if there is
\* one within the timeout, else None.
UIGet ==
    /\ IF ui_queue # <<>>
       THEN /\ ui_got' = Pulled(ui_queue)
            /\ ui_queue' = AfterPull(ui_queue)
       ELSE /\ ui_got' = 0
            /\ UNCHANGED ui_queue
    /\ UNCHANGED <<config_vars, lock_vars, main_vars, out_vars, bottom_image, shutdown,
                   grasper_vars, monitor_vars, relay_vars, fs_vars, rec_vars,
                   hist_vars>>

NextUI == UIRefresh \/ UIRelay \/ UIGet

SpecUI == InitUI /\ [][NextUI]_vars

(***************************************************************************)
(* The Recorder at the granularity of its re-entrant locks, video mode,    *)
(* recording enabled or not: the capture thread runs record(), the relay   *)
(* thread calls start_new_recording() and stop(), the monitor loop relays  *)
(* snapshot requests and reads the buffers, and the main thread sets the   *)
(* shutdown event.                                                         *)
(***************************************************************************)
\* Mutant of CanTake: the lock excludes nobody.
CanTakeAlways(l, t) == TRUE

\* threading.RLock (recording.py:63-64): thread t can acquire lock l.
CanTake(l, t) == l.owner \in {"none", t}

\* RLock.acquire by thread t.
Taken(l, t) == [owner |-> t, count |-> l.count + 1]

\* Mutant of ReleaseLock: the owner is not cleared by the last release.
ReleaseLockOwned(l) == [l EXCEPT !.count = IF @ > 0 THEN @ - 1 ELSE @]

\* Mutant of ReleaseLock: the lock is kept.
ReleaseLockKept(l) == l

\* RLock.release: leaving a with block.
ReleaseLock(l) ==
    IF l.count > 1 THEN [l EXCEPT !.count = @ - 1]
    ELSE [owner |-> "none", count |-> 0]

Goto(t, pc) == tpc' = [tpc EXCEPT ![t] = pc]

\* What the lock-level actions never change.
lk_fixed == <<config_vars, grasper_vars, monitor_vars, relay_vars, fs_vars,
              cpc, pause, rec_output_dir, hist_vars, main_vars, frames,
              states_json, writers, tick_err, ui_queue, ui_got>>
lk_rest == <<lk_fixed, take_snapshot, snapshot_cond>>
lk_flags == <<stop_flag, shutdown, frame_counter, retargets>>
lk_writers == <<video_writer, opened, released, wrote>>
lk_buffers == <<image_top, bottom_image, sensor_state, refreshes>>

\* _start_or_restart_video_writers (recording.py:211-212): take writer_lock.
RsLock(t) ==
    /\ tpc[t] = "rs_lock"
    /\ CanTake(writer_lock, t)
    /\ writer_lock' = Taken(writer_lock, t)
    /\ Goto(t, "rs_release")
    /\ UNCHANGED <<lk_rest, lk_flags, lk_writers, lk_buffers, seen, tret, tn,
                   image_lock>>

\* Where _release_writers returns to.
AfterRelease(pc) == IF pc \in {"rs_release", "rs_clear"} THEN "rs_ensure" ELSE "done"

\* _release_writers (recording.py:220-225), called under writer_lock by
\* _start_or_restart_video_writers (213) and without it by record()'s finally
\* block (147): take writer_lock and release the writers that are set.
RwRelease(t) ==
    /\ tpc[t] \in {"rs_release", "fin"}
    /\ CanTake(writer_lock, t)
    /\ IF video_writer # 0
       THEN /\ released' = released \cup {<<video_writer, t>>}
            /\ writer_lock' = Taken(writer_lock, t)
            /\ Goto(t, IF tpc[t] = "fin" THEN "fin_clear" ELSE "rs_clear")
       ELSE /\ writer_lock' = ReleaseLock(Taken(writer_lock, t))
            /\ Goto(t, AfterRelease(tpc[t]))
            /\ UNCHANGED released
    /\ UNCHANGED <<lk_rest, lk_flags, video_writer, opened, wrote, lk_buffers,
                   seen, tret, tn, image_lock>>

\* _release_writers (recording.py:223,226): the attributes are set to None and
\* the with block is left.
RwClear(t) ==
    /\ tpc[t] \in {"rs_clear", "fin_clear"}
    /\ video_writer' = 0
    /\ writer_lock' = ReleaseLock(writer_lock)
    /\ Goto(t, AfterRelease(tpc[t]))
    /\ UNCHANGED <<lk_rest, lk_flags, opened, released, wrote, lk_buffers,
                   seen, tret, tn, image_lock>>

\* _start_new_video -> ensure_images (recording.py:90,269): take image_lock.
RsEnsure(t) ==
    /\ tpc[t] = "rs_ensure"
    /\ CanTake(image_lock, t)
    /\ image_lock' = Taken(image_lock, t)
    /\ Goto(t, "rs_check")
    /\ UNCHANGED <<lk_rest, lk_flags, lk_writers, lk_buffers, seen, tret, tn,
                   writer_lock>>

\* ensure_images (recording.py:270-277): with an image missing _update runs on
\* this thread, inside image_lock (152-157); else the lock is left.
RsCheck(t) ==
    /\ tpc[t] = "rs_check"
    /\ IF image_top = 0 \/ bottom_image = 0
       THEN /\ refreshes' = refreshes + 1
            /\ tn' = [tn EXCEPT ![t] = refreshes + 1]
            /\ image_top' = refreshes + 1
            /\ bottom_image' = refreshes + 1
            /\ Goto(t, "rs_state")
            /\ UNCHANGED image_lock
       ELSE /\ image_lock' = ReleaseLock(image_lock)
            /\ Goto(t, "rs_shape")
            /\ UNCHANGED <<refreshes, tn, image_top, bottom_image>>
    /\ UNCHANGED <<lk_rest, lk_flags, lk_writers, sensor_state, seen, tret,
                   writer_lock>>

\* _update (recording.py:158-159) inside ensure_images, which then leaves
\* image_lock (272-277).
RsState(t) ==
    /\ tpc[t] = "rs_state"
    /\ sensor_state' = tn[t]
    /\ image_lock' = ReleaseLock(image_lock)
    /\ Goto(t, "rs_shape")
    /\ UNCHANGED <<lk_rest, lk_flags, lk_writers, image_top, bottom_image,
                   refreshes, seen, tret, tn, writer_lock>>

\* _start_new_video (recording.py:100): take image_lock for the frame shapes.
RsShape(t) ==
    /\ tpc[t] = "rs_shape"
    /\ CanTake(image_lock, t)
    /\ image_lock' = Taken(image_lock, t)
    /\ Goto(t, "rs_shaped")
    /\ UNCHANGED <<lk_rest, lk_flags, lk_writers, lk_buffers, seen, tret, tn,
                   writer_lock>>

\* _start_new_video (recording.py:101-102): the shapes are read.
RsShaped(t) ==
    /\ tpc[t] = "rs_shaped"
    /\ image_lock' = ReleaseLock(image_lock)
    /\ Goto(t, "rs_assign")
    /\ UNCHANGED <<lk_rest, lk_flags, lk_writers, lk_buffers, seen, tret, tn,
                   writer_lock>>

\* recording.py:103-109,214-216: a new writer pair is opened and assigned; the
\* with block of _start_or_restart_video_writers is left.
RsAssign(t) ==
    /\ tpc[t] = "rs_assign"
    /\ opened' = opened + 1
    /\ video_writer' = opened + 1
    /\ writer_lock' = ReleaseLock(writer_lock)
    /\ Goto(t, tret[t])
    /\ UNCHANGED <<lk_rest, lk_flags, released, wrote, lk_buffers, seen, tret,
                   tn, image_lock>>

Restart(t) ==
    \/ RsLock(t) \/ RwRelease(t) \/ RwClear(t) \/ RsEnsure(t) \/ RsCheck(t)
    \/ RsState(t) \/ RsShape(t) \/ RsShaped(t) \/ RsAssign(t)

\* record() (recording.py:113,235-239): _prepare_new_recording.
KPrepare ==
    /\ tpc["capture"] = "start"
    /\ stop_flag' = FALSE
    /\ tret' = [tret EXCEPT !["capture"] = "top"]
    /\ Goto("capture", "rs_lock")
    /\ UNCHANGED <<lk_rest, shutdown, frame_counter, retargets, lk_writers,
                   lk_buffers, seen, tn, image_lock, writer_lock>>

\* recording.py:115,146-147: the loop condition fails; on to the finally block.
KExit ==
    /\ tpc["capture"] = "top"
    /\ stop_flag \/ shutdown
    /\ Goto("capture", "fin")
    /\ UNCHANGED <<lk_rest, lk_flags, lk_writers, lk_buffers, seen, tret, tn,
                   image_lock, writer_lock>>

\* recording.py:115-117,152: a tick begins; _update fetches from the robot.
KFetch ==
    /\ tpc["capture"] = "top"
    /\ ~stop_flag /\ ~shutdown
    /\ frame_counter < MaxTicks
    /\ refreshes' = refreshes + 1
    /\ tn' = [tn EXCEPT !["capture"] = refreshes + 1]
    /\ Goto("capture", "upd_lock")
    /\ UNCHANGED <<lk_rest, lk_flags, lk_writers, image_top, bottom_image,
                   sensor_state, seen, tret, image_lock, writer_lock>>

\* _update (recording.py:153): take image_lock.
KUpdLock ==
    /\ tpc["capture"] = "upd_lock"
    /\ CanTake(image_lock, "capture")
    /\ image_lock' = Taken(image_lock, "capture")
    /\ Goto("capture", "upd_in")
    /\ UNCHANGED <<lk_rest, lk_flags, lk_writers, lk_buffers, seen, tret, tn,
                   writer_lock>>

\* _update (recording.py:154-157): both images are replaced; the lock is left.
KUpdImages ==
    /\ tpc["capture"] = "upd_in"
    /\ image_top' = tn["capture"]
    /\ bottom_image' = tn["capture"]
    /\ image_lock' = ReleaseLock(image_lock)
    /\ Goto("capture", "upd_state")
    /\ UNCHANGED <<lk_rest, lk_flags, lk_writers, sensor_state, refreshes,
                   seen, tret, tn, writer_lock>>

\* _update (recording.py:158-159): the sensor state is replaced.
KUpdState ==
    /\ tpc["capture"] = "upd_state"
    /\ sensor_state' = tn["capture"]
    /\ Goto("capture", "ens")
    /\ UNCHANGED <<lk_rest, lk_flags, lk_writers, image_top, bottom_image,
                   refreshes, seen, tret, tn, image_lock, writer_lock>>

\* record() (recording.py:118,123-125): ensure_images takes and leaves
\* image_lock; _capture_frame is called with save_data only.
KEnsure ==
    /\ tpc["capture"] = "ens"
    /\ CanTake(image_lock, "capture")
    /\ Goto("capture", IF save_data THEN "cf_copy" ELSE "rotate")
    /\ UNCHANGED <<lk_rest, lk_flags, lk_writers, lk_buffers, seen, tret, tn,
                   image_lock, writer_lock>>

\* _capture_frame (recording.py:167-169): take image_lock for the copies.
KCopyLock ==
    /\ tpc["capture"] = "cf_copy"
    /\ CanTake(image_lock, "capture")
    /\ image_lock' = Taken(image_lock, "capture")
    /\ Goto("capture", "cf_copied")
    /\ UNCHANGED <<lk_rest, lk_flags, lk_writers, lk_buffers, seen, tret, tn,
                   writer_lock>>

\* _capture_frame (recording.py:170-171): the copies are made; the lock is
\* left.
KCopied ==
    /\ tpc["capture"] = "cf_copied"
    /\ tn' = [tn EXCEPT !["capture"] = bottom_image]
    /\ image_lock' = ReleaseLock(image_lock)
    /\ Goto("capture", "cf_wlock")
    /\ UNCHANGED <<lk_rest, lk_flags, lk_writers, lk_buffers, seen, tret,
                   writer_lock>>

\* _capture_frame (recording.py:175): take writer_lock.
KWLock ==
    /\ tpc["capture"] = "cf_wlock"
    /\ CanTake(writer_lock, "capture")
    /\ writer_lock' = Taken(writer_lock, "capture")
    /\ Goto("capture", "cf_check")
    /\ UNCHANGED <<lk_rest, lk_flags, lk_writers, lk_buffers, seen, tret, tn,
                   image_lock>>

\* _capture_frame (recording.py:176-179,182-183): the writers are tested.
KCheck ==
    /\ tpc["capture"] = "cf_check"
    /\ IF video_writer # 0
       THEN Goto("capture", "cf_wtop") /\ UNCHANGED writer_lock
       ELSE Goto("capture", "cf_fin") /\ writer_lock' = ReleaseLock(writer_lock)
    /\ UNCHANGED <<lk_rest, lk_flags, lk_writers, lk_buffers, seen, tret, tn,
                   image_lock>>

\* _capture_frame (recording.py:180-181): one image is written to the writer
\* the attribute holds now; on None the AttributeError is absorbed (184-185)
\* and the with block is left.
KWrite(part) ==
    /\ tpc["capture"] = (IF part = "top" THEN "cf_wtop" ELSE "cf_wbot")
    /\ IF video_writer = 0
       THEN /\ writer_lock' = ReleaseLock(writer_lock)
            /\ Goto("capture", "cf_fin")
            /\ UNCHANGED wrote
       ELSE /\ wrote' = Append(wrote, <<video_writer, frame_counter, part>>)
            /\ IF part = "top"
               THEN Goto("capture", "cf_wbot") /\ UNCHANGED writer_lock
               ELSE /\ Goto("capture", "cf_fin")
                    /\ writer_lock' = ReleaseLock(writer_lock)
    /\ UNCHANGED <<lk_rest, lk_flags, video_writer, opened, released,
                   lk_buffers, seen, tret, tn, image_lock>>

\* _capture_frame's finally block (recording.py:186-187): take the lock of
\* snapshot_cond.
KFinLock ==
    /\ tpc["capture"] = "cf_fin"
    /\ CanTake(snapshot_cond, "capture")
    /\ snapshot_cond' = Taken(snapshot_cond, "capture")
    /\ Goto("capture", "cf_fin_in")
    /\ UNCHANGED <<lk_fixed, take_snapshot, lk_flags, lk_writers, lk_buffers,
                   seen, tret, tn, image_lock, writer_lock>>

\* _capture_frame's finally block (recording.py:188-191): a positive counter
\* is decremented (at zero the waiters are notified); the lock is left.
KFinally ==
    /\ tpc["capture"] = "cf_fin_in"
    /\ take_snapshot' = Decrement(take_snapshot)
    /\ snapshot_cond' = ReleaseLock(snapshot_cond)
    /\ Goto("capture", "rotate")
    /\ UNCHANGED <<lk_fixed, lk_flags, lk_writers, lk_buffers, seen, tret, tn,
                   image_lock, writer_lock>>

\* recording.py:126-131 (video mode): the clip is full at frame_counter n.
ClipFull(len, n) == IF len = 0 THEN FALSE ELSE (n % len = 0 /\ n # 0)

\* record() (recording.py:126-133): a full clip restarts the writers.
KRotate ==
    /\ tpc["capture"] = "rotate"
    /\ IF ClipFull(clip_length, frame_counter)
       THEN /\ tret' = [tret EXCEPT !["capture"] = "tick_end"]
            /\ Goto("capture", "rs_lock")
       ELSE /\ Goto("capture", "tick_end")
            /\ UNCHANGED tret
    /\ UNCHANGED <<lk_rest, lk_flags, lk_writers, lk_buffers, seen, tn,
                   image_lock, writer_lock>>

\* record() (recording.py:135-138): frame interval, save_state, frame_counter.
KTickEnd ==
    /\ tpc["capture"] = "tick_end"
    /\ frame_counter' = frame_counter + 1
    /\ Goto("capture", "top")
    /\ UNCHANGED <<lk_rest, stop_flag, shutdown, retargets, lk_writers,
                   lk_buffers, seen, tret, tn, image_lock, writer_lock>>

CaptureLk ==
    \/ KPrepare \/ KExit \/ KFetch \/ KUpdLock \/ KUpdImages \/ KUpdState
    \/ KEnsure \/ KCopyLock \/ KCopied \/ KWLock \/ KCheck
    \/ \E part \in {"top", "bottom"} : KWrite(part)
    \/ KFinLock \/ KFinally
    \/ KRotate \/ KTickEnd
    \/ Restart("capture")

\* start_new_recording (recording.py:228-232,237), called by the relay on
\* ACTIVE and RESETTING entries with save_data (coordinator.py:151-152,
\* 162-168).
SStartNewRecording ==
    /\ tpc["relay"] = "idle"
    /\ save_data
    /\ retargets < MaxRetargets
    /\ retargets' = retargets + 1
    /\ stop_flag' = FALSE
    /\ tret' = [tret EXCEPT !["relay"] = "idle"]
    /\ Goto("relay", "rs_lock")
    /\ UNCHANGED <<lk_rest, shutdown, frame_counter, lk_writers, lk_buffers,
                   seen, tn, image_lock, writer_lock>>

\* Mutant of WritersAfterStop: stop() drops the writers.
WritersAfterStopNone(w) == 0

\* stop() (recording.py:241-244) leaves the writer attributes as they are.
WritersAfterStop(w) == w

\* stop() (recording.py:241-244), called by the relay on FINISHED entry, after
\* which the relay loop is left (coordinator.py:115-117,170-173).
SStop ==
    /\ tpc["relay"] = "idle"
    /\ stop_flag' = TRUE
    /\ video_writer' = WritersAfterStop(video_writer)
    /\ Goto("relay", "done")
    /\ UNCHANGED <<lk_rest, shutdown, frame_counter, retargets, opened,
                   released, wrote, lk_buffers, seen, tret, tn, image_lock,
                   writer_lock>>

RelayLk == SStartNewRecording \/ SStop \/ Restart("relay")

\* _check_if_record_is_requested (coordinator.py:63,82-87), in an iteration
\* in which the Task Runner has set request_state_record: the lock of
\* snapshot_cond is taken and the counter is incremented.
USnapLock ==
    /\ tpc["monitor"] = "idle"
    /\ ~shutdown
    /\ CanTake(snapshot_cond, "monitor")
    /\ snapshot_cond' = Taken(snapshot_cond, "monitor")
    /\ take_snapshot' = take_snapshot + 1
    /\ Goto("monitor", "snap_in")
    /\ UNCHANGED <<lk_fixed, lk_flags, lk_writers, lk_buffers, seen, tret, tn,
                   image_lock, writer_lock>>

\* threading.Condition.wait: the lock is given up for the time of the wait.
WaitReleases(l) == [owner |-> "none", count |-> 0]

\* coordinator.py:88-89: the counter is positive; snapshot_cond.wait gives
\* the lock up.
USnapWait ==
    /\ tpc["monitor"] = "snap_in"
    /\ ~SnapshotServed(take_snapshot)
    /\ snapshot_cond' = WaitReleases(snapshot_cond)
    /\ Goto("monitor", "snap_waiting")
    /\ UNCHANGED <<lk_fixed, take_snapshot, lk_flags, lk_writers, lk_buffers,
                   seen, tret, tn, image_lock, writer_lock>>

\* coordinator.py:89: the wait ends, by notify_all or by its 1.0 s timeout,
\* and takes the lock again before it returns.
USnapWake ==
    /\ tpc["monitor"] = "snap_waiting"
    /\ CanTake(snapshot_cond, "monitor")
    /\ snapshot_cond' = Taken(snapshot_cond, "monitor")
    /\ Goto("monitor", "snap_in")
    /\ UNCHANGED <<lk_fixed, take_snapshot, lk_flags, lk_writers, lk_buffers,
                   seen, tret, tn, image_lock, writer_lock>>

\* coordinator.py:88,90-91: the counter is at zero; the with block is left
\* (the request flag is cleared and the acknowledgement gate set).
USnapServed ==
    /\ tpc["monitor"] = "snap_in"
    /\ SnapshotServed(take_snapshot)
    /\ snapshot_cond' = ReleaseLock(snapshot_cond)
    /\ Goto("monitor", "read_image")
    /\ UNCHANGED <<lk_fixed, take_snapshot, lk_flags, lk_writers, lk_buffers,
                   seen, tret, tn, image_lock, writer_lock>>

\* _monitor_state (coordinator.py:71-73): recorder.bottom_image is read, in
\* an iteration without a snapshot request or after the request was served.
UReadImage ==
    /\ \/ tpc["monitor"] = "idle" /\ ~shutdown
       \/ tpc["monitor"] = "read_image"
    /\ seen' = <<bottom_image, seen[2]>>
    /\ IF bottom_image # 0 THEN Goto("monitor", "read_state")
       ELSE Goto("monitor", "idle")
    /\ UNCHANGED <<lk_rest, lk_flags, lk_writers, lk_buffers, tret, tn,
                   image_lock, writer_lock>>

\* _monitor_state (coordinator.py:74-78): recorder.state is read; the
\* attribute does not exist before the first assignment (recording.py:158) and
\* reading it then raises AttributeError out of the monitor loop.
UReadState ==
    /\ tpc["monitor"] = "read_state"
    /\ IF sensor_state = 0
       THEN Goto("monitor", "crashed") /\ UNCHANGED seen
       ELSE Goto("monitor", "idle") /\ seen' = <<seen[1], sensor_state>>
    /\ UNCHANGED <<lk_rest, lk_flags, lk_writers, lk_buffers, tret, tn,
                   image_lock, writer_lock>>

MonitorLk ==
    \/ USnapLock \/ USnapWait \/ USnapWake \/ USnapServed
    \/ UReadImage \/ UReadState

\* main.py:518: the shutdown event is set.
LkShutdown ==
    /\ ~shutdown
    /\ shutdown' = SetSignal(shutdown)
    /\ UNCHANGED <<lk_rest, stop_flag, frame_counter, retargets, lk_writers,
                   lk_buffers, seen, tpc, tret, tn, image_lock, writer_lock>>

InitLk ==
    /\ save_data \in BOOLEAN
    /\ record_only_after_action = FALSE
    /\ clip_length \in 0..MaxClip
    /\ base_dir = {}
    /\ InitThreads

NextLk == CaptureLk \/ RelayLk \/ MonitorLk \/ LkShutdown

SpecLk == InitLk /\ [][NextLk]_vars

(***************************************************************************)
(* Properties.                                                             *)
(***************************************************************************)
InRecordCurrentState == gpc \in {"rcs_set", "rcs_clear", "rcs_wait"}

InPerformTask == gpc = "perform" \/ (InRecordCurrentState /\ gret = "perform")

CaptureRunning == cpc \in {"start", "loop", "capture"} /\ ~stop_flag

AllLoopsExited ==
    /\ gpc \in {"done", "crashed"}
    /\ mpc = "done"
    /\ rpc \in {"done", "crashed"}
    /\ cpc \in {"none", "rejected", "done"}

\* C1: the snapshot handshake loses no acknowledgement.  With recording
\* enabled, the capture loop running and not paused and no shutdown, a
\* requester waiting on the acknowledgement gate always has its
\* acknowledgement ahead of it: the gate is set, or the request flag is still
\* set for the monitor loop to pick up, or the monitor loop is about to set
\* the gate.  Otherwise record_current_state() can return only by shutdown.
C1_NoLostAck ==
    (/\ gpc = "rcs_wait"
     /\ ~shutdown
     /\ save_data
     /\ CaptureRunning /\ ~pause
     /\ mpc # "done")
    => \/ state_recorded_event
       \/ request_state_record
       \/ mpc = "set_event"

\* C2 (as claimed): the Task Runner's state changes only along
\* STARTUP->ACTIVE, ACTIVE->RESETTING, RESETTING->STARTUP and, on an explicit
\* termination request of the task, RESETTING->FINISHED.
C2_TransitionsAsClaimed ==
    [][state' # state =>
        \/ <<state, state'>> \in {<<"STARTUP", "ACTIVE">>,
                                  <<"ACTIVE", "RESETTING">>,
                                  <<"RESETTING", "STARTUP">>}
        \/ (<<state, state'>> = <<"RESETTING", "FINISHED">> /\ finish_req')]_vars

\* C2 (amended): the Task Runner's state changes only along STARTUP->ACTIVE,
\* ACTIVE->RESETTING, RESETTING->STARTUP and, only when the task explicitly
\* requests termination (perform_task sets FINISHED), ACTIVE->FINISHED.
C2_Transitions ==
    [][state' # state =>
        \/ <<state, state'>> \in {<<"STARTUP", "ACTIVE">>,
                                  <<"ACTIVE", "RESETTING">>,
                                  <<"RESETTING", "STARTUP">>}
        \/ (<<state, state'>> = <<"ACTIVE", "FINISHED">>
              /\ gpc = "perform" /\ finish_req')]_vars

C2_Witness ==
    /\ state = "FINISHED" /\ finish_req
    /\ occurred = <<"ACTIVE", "RESETTING", "STARTUP", "ACTIVE", "FINISHED">>

\* C3: when perform_task, started by the start signal, raises in ACTIVE (no
\* shutdown), the Task Runner sets the failed flag, enters RESETTING with
\* failed = true, and its loop keeps running.
C3_FailureEntersResetting ==
    [][(gpc = "perform" /\ started /\ ~shutdown /\ raised' /\ ~raised) =>
          (failed' /\ state' = "RESETTING" /\ gpc' = "loop")]_vars

\* C4: once the Shutdown Signal is set, every loop exits (stated for recording
\* enabled): in every state with the signal set, either all four loops have
\* exited or some loop can still take a step towards its exit.
C4_ShutdownExits ==
    (shutdown /\ save_data) => (AllLoopsExited \/ ENABLED Next)

\* The entries into ACTIVE and RESETTING, in order.
ActiveResetting(seq) ==
    SelectSeq(seq, LAMBDA s : s \in {"ACTIVE", "RESETTING"})

IsPrefix(a, b) == Len(a) <= Len(b) /\ SubSeq(b, 1, Len(a)) = a

\* C5: the relay's ACTIVE and RESETTING entry actions follow the Task
\* Runner's transitions into ACTIVE and RESETTING, one for one and in order:
\* the entries handled so far are a prefix of the entries that occurred.
C5_NoTransitionSkipped ==
    IsPrefix(ActiveResetting(fired), ActiveResetting(occurred))

LastHandled == IF fired = <<>> THEN "STARTUP" ELSE fired[Len(fired)]

\* C6: the relay fires an entry action only on a change of state: only for a
\* dequeued message whose state differs from the previously handled state,
\* hence at most once for a run of messages carrying the same state.
C6_FiresOnlyOnChange ==
    [][fired' # fired =>
          /\ msg_queue # <<>>
          /\ fired' = Append(fired, Head(msg_queue))
          /\ Head(msg_queue) # LastHandled
          /\ (rpc = "get" => prev_state = LastHandled)]_vars

C6_Witness ==
    /\ rpc = "get"
    /\ fired = <<"ACTIVE">>
    /\ cur_msg = "ACTIVE"
    /\ prev_state = "ACTIVE"
    /\ msg_queue # <<>> /\ Head(msg_queue) = "ACTIVE"

\* C7: perform_task is never running in a cycle unless the relay fired the
\* start signal for that cycle, after the session was allocated and with the
\* Recorder existing and targeting the task directory.
C7_PerformOnlyAfterStart == InPerformTask => (started /\ setup_ok)

\* C8: session ids returned by successive get_session_dirs calls are strictly
\* increasing, and on an initially empty directory the i-th call returns i; a
\* session that ended with status fail does not free its id.
C8_IdsStrictlyIncreasing ==
    /\ \A i \in 1..(Len(ids) - 1) : ids[i] < ids[i + 1]
    /\ dir0 = {} => \A i \in 1..Len(ids) : ids[i] = i

C8_Witness ==
    /\ dir0 = {}
    /\ ids = <<1, 2, 3>>
    /\ \E i \in 1..Len(status_log) : status_log[i] = <<1, "fail">>

\* A name that parses as a non-negative integer: a non-empty decimal numeral.
ParsesAsNat(name) ==
    /\ Len(name) > 0
    /\ \A i \in 1..Len(name) : name[i] \in AsciiDigitSet

\* C9: for any content of the base directory, get_session_dirs returns
\* 1 + the maximum over the immediate sub-directories whose names parse as
\* non-negative integers (1 if there are none), ignoring every other entry,
\* and on return session_dir/task and session_dir/restore exist.
C9_MaxOverSubdirectories ==
    /\ last_call # "raised"
    /\ last_call = "returned" =>
         LET S == {IntOf(e.name) : e \in
                     {x \in pre_dir : x.kind = "dir" /\ ParsesAsNat(x.name)}}
             id == ids[Len(ids)]
         IN  /\ id = IF S = {} THEN 1 ELSE SetMax(S) + 1
             /\ \E e \in base_dir :
                  /\ e.name = StrOf(id) /\ e.kind = "dir"
                  /\ {"task", "restore"} \subseteq e.sub

\* C10: the Snapshot Request counter is 0 or 1 in every reachable state.
C10_CounterZeroOrOne == take_snapshot \in {0, 1}

C10_Witness == take_snapshot = 1 /\ mpc = "snap_wait" /\ gpc = "rcs_wait"

\* C11: the Shutdown Signal is monotonic: no step of any loop, handler or
\* lifecycle operation takes it from set to not set, and setting it again
\* (main.py:518 or join() after a capture failure) leaves it set.
C11_ShutdownMonotonic == [][shutdown => shutdown']_vars

C11_Witness ==
    /\ shutdown /\ jpc = "returned"
    /\ gpc = "crashed" /\ cpc = "done" /\ mpc = "done"

\* C12: join() returns only after the task-runner, monitor, relay and capture
\* loops have all terminated, with the Shutdown Signal set; the signal is set
\* before the pool shutdown is awaited, also when a supervised loop failed.
C12_JoinAfterAllLoops ==
    /\ jpc = "returned" => (AllLoopsExited /\ shutdown)
    /\ jpc = "pool" => shutdown

C12_Witness ==
    /\ jpc = "returned" /\ raised /\ gpc = "crashed"
    /\ cpc = "done" /\ started

\* C13: when a supervised loop has terminated with an exception and the
\* Shutdown Signal is not set, the step that sets it on account of the
\* failure (join()'s wait returning) is enabled.
C13_FailureTripsShutdown ==
    (FutureRaised /\ ~shutdown) => ENABLED JWaitDone

\* C14 (as claimed): every exception raised during a capture tick, by the
\* sensor refresh, the frame write or the state write, sets the Shutdown
\* Signal, ends the capture loop and releases the writers in that step.
C14_AnyTickExceptionStops ==
    [][(CUpdateFails \/ KFrame("raised") \/ KSaveState("raised")) =>
          (shutdown' /\ cpc' = "done" /\ ~writers')]_vars

\* C14 (amended): an exception raised by the sensor refresh leaves the tick:
\* that step sets the Shutdown Signal, ends the capture loop and releases the
\* writers, and a capture loop that has ended never continues; an exception
\* of the frame write or of the state write is absorbed: the tick goes on
\* and the signal is left as it was.
C14_RefreshExceptionStops ==
    [][/\ CUpdateFails => (shutdown' /\ cpc' = "done" /\ ~writers')
       /\ cpc = "done" => cpc' = "done"
       /\ (KFrame("raised") \/ KSaveState("raised")) =>
             (cpc' \in {"state", "loop"} /\ shutdown' = shutdown)]_vars

C14_Witness ==
    /\ shutdown /\ jpc = "run" /\ cpc = "done" /\ ~writers
    /\ tick_err = "frame" /\ Len(states_json) = 2 /\ Len(frames) = 1

\* C15: get_ui_update never returns a frame older than a frame that is still
\* queued: after a pull that returned a frame, no message left on ui_queue
\* carries a later refresh than the one returned.
C15_PreviewIsNewest ==
    [][Len(ui_queue') < Len(ui_queue) =>
          \A i \in 1..Len(ui_queue') : ui_queue'[i] <= ui_got']_vars

\* The sessions status.txt was written for, in order of writing.
StatusSessions == [i \in 1..Len(status_log) |-> status_log[i][1]]

\* C16: with recording enabled, status.txt is written once per allocated
\* session, into the directory of the session the Recorder was last pointed
\* at, with text success or fail: no session has two writes, every write is
\* for an allocated session and never for one older than an earlier write,
\* and when the next session is allocated every earlier one has its status.
C16_StatusOncePerSession ==
    save_data =>
      /\ \A i, j \in 1..Len(status_log) :
            i < j => StatusSessions[i] < StatusSessions[j]
      /\ \A i \in 1..Len(status_log) :
            /\ status_log[i][2] \in {"success", "fail"}
            /\ \E k \in 1..Len(ids) : ids[k] = status_log[i][1]
      /\ \A k \in 1..(Len(ids) - 1) :
            \E i \in 1..Len(status_log) : status_log[i][1] = ids[k]

\* The record_current_state() calls that have returned.
ReturnedCalls == IF InRecordCurrentState THEN orders - 1 ELSE orders

\* The capture ticks that have run _capture_frame.
ServedTicks == frame_counter + (IF cpc = "state" THEN 1 ELSE 0)

\* C17 (as claimed): under the record-only-after-action policy every
\* record_current_state() call that returned has its persisted frame and no
\* frame is persisted without a call: the number of persisted frames is the
\* number of returned calls, or one more while a call is being served.
C17_FramePerReturnedCall ==
    record_only_after_action =>
      /\ ReturnedCalls <= Len(frames)
      /\ Len(frames) <= orders

\* C17 (amended): under the policy no tick persists without a call, and
\* every call that returned while the Shutdown Signal was not set was served
\* by a capture tick of its own, in call order; with no write failure the
\* persisted frames are exactly the served ticks.  A call that returns by
\* shutdown may have no frame.
C17_FramePerServedCall ==
    record_only_after_action =>
      /\ ServedTicks <= orders
      /\ ~shutdown => ReturnedCalls <= ServedTicks
      /\ Len(frames) <= ServedTicks
      /\ tick_err = "none" => Len(frames) = ServedTicks
      /\ \A i \in 1..Len(frames) : \A j \in 1..Len(frames) :
            i < j => frames[i][2] < frames[j][2]

C17_Witness ==
    /\ record_only_after_action /\ ~shutdown
    /\ orders = 2 /\ ~InRecordCurrentState
    /\ Len(frames) = 2 /\ frames[1][1] = <<1, "task">>
    /\ frames[2][1] = <<1, "restore">>

\* C18: under the record-only-after-action policy a capture tick persists
\* only if the Snapshot Request counter is positive at that tick: a tick that
\* is about to write its frame sees a positive counter, every frame and every
\* state record belongs to a tick that served a request of its own, and with
\* zero requests nothing is persisted.
C18_PersistOnlyOnRequest ==
    record_only_after_action =>
      /\ cpc = "capture" => take_snapshot > 0
      /\ ServedTicks <= orders
      /\ Len(frames) <= ServedTicks /\ Len(states_json) <= ServedTicks
      /\ orders = 0 => (frames = <<>> /\ states_json = <<>> /\ cpc # "capture")

C18_Witness ==
    /\ record_only_after_action /\ ~shutdown
    /\ orders = 1 /\ take_snapshot = 0 /\ cpc = "loop"
    /\ Len(frames) = 1 /\ Len(states_json) = 1
    /\ gpc = "perform" /\ state_recorded_event /\ mpc = "top"

\* C19: each persisting tick appends its state record to the directory its
\* frame went to, also when start_new_recording redirects the Recorder
\* between the two writes: a frame and a state record of the same tick are
\* never in different directories.
C19_StateRecordInFrameDir ==
    \A i \in 1..Len(frames) : \A j \in 1..Len(states_json) :
        frames[i][2] = states_json[j][2] => frames[i][1] = states_json[j][1]

\* C20: FINISHED is terminal: from a state in which the Task Runner's state
\* is FINISHED no step changes it, run_grasping is at or past the test that
\* leaves its loop, and no startup, perform_task, reset_task or
\* recover_after_fail is begun.
C20_FinishedIsTerminal ==
    [][state = "FINISHED" =>
          /\ state' = "FINISHED"
          /\ gpc \in {"after_task", "done"}
          /\ gpc' # gpc => gpc' = "done"
          /\ cycles' = cycles /\ orders' = orders /\ hook' = hook
          /\ occurred' = occurred]_vars

C20_Witness ==
    /\ state = "FINISHED" /\ gpc = "done" /\ ~shutdown
    /\ cycles = 2 /\ hook = "recover"
    /\ rpc = "done" /\ stop_flag /\ cpc = "done"

\* C21: each pass of the Task Runner through RESETTING invokes exactly one
\* hook: a pass goes from the settle margin to one hook and from that hook
\* out of RESETTING; the hook is recover_after_fail if the failed flag is set
\* and reset_task otherwise; the step that leaves RESETTING ends that hook,
\* leaves the failed flag false and makes the state STARTUP.
C21_OneHookPerReset ==
    [][/\ (gpc = "settle" /\ gpc' # gpc) =>
            /\ state = "RESETTING" /\ gpc' = "hook"
            /\ hook' = (IF failed THEN "recover" ELSE "reset")
       /\ gpc # "settle" => hook' = hook
       /\ (gpc' = "hook" /\ gpc # "hook") =>
            (gpc = "settle" \/ (gpc = "rcs_wait" /\ gret = "hook"))
       /\ (gpc' = "settle" /\ gpc # "settle") =>
            (gpc = "loop" /\ state = "RESETTING")
       /\ (state = "RESETTING" /\ state' # state) =>
            (gpc = "hook" /\ state' = "STARTUP" /\ ~failed')]_vars

C21_Witness ==
    /\ state = "STARTUP" /\ gpc = "loop" /\ ~failed /\ ~shutdown
    /\ occurred = <<"ACTIVE", "RESETTING", "STARTUP", "ACTIVE", "RESETTING",
                    "STARTUP">>
    /\ hook = "reset"
    /\ \E i \in 1..Len(status_log) : status_log[i][2] = "fail"

\* The ACTIVE entries the relay has begun to handle.
ActiveHandled == Len(SelectSeq(fired, LAMBDA s : s = "ACTIVE"))

\* C22: on each ACTIVE entry the relay first allocates the session and
\* points the Recorder at its task directory, then fires the start signal:
\* the start signal is set only by the relay's fire step of an ACTIVE entry,
\* at which a Recorder exists and targets the task directory of the session
\* allocated for this entry; with recording enabled exactly one session has
\* been allocated per ACTIVE entry handled, and none with recording disabled.
C22_SetupBeforeStart ==
    [][/\ (start_event' /\ ~start_event) => rpc = "fire"
       /\ (rpc = "fire" /\ rpc' # rpc) =>
            /\ start_event'
            /\ cur_msg = "ACTIVE" /\ fired[Len(fired)] = "ACTIVE"
            /\ cpc # "none"
            /\ rec_output_dir = <<session_id, IF save_data THEN "task" ELSE "">>
            /\ save_data => (Len(ids) = ActiveHandled /\ session_id = ids[Len(ids)])
       /\ ids' # ids =>
            /\ rpc = "on_active" /\ save_data
            /\ Len(ids') = Len(ids) + 1 /\ Len(ids') = ActiveHandled
       /\ (rpc = "on_active" /\ rpc' = "fire" /\ save_data) => ids' # ids
       /\ ~save_data => ids' = <<>>]_vars

C22_Witness ==
    /\ save_data /\ start_event /\ rpc = "get" /\ prev_state = "ACTIVE"
    /\ ids = <<1, 2>> /\ session_id = 2 /\ rec_output_dir = <<2, "task">>
    /\ ActiveHandled = 2 /\ gpc = "wait_start" /\ ~shutdown

\* The failed flag at the moment the Task Runner entered its latest
\* RESETTING: the flag itself until the hook is chosen (grasper.py:129), then
\* the hook that was chosen.
FailedAtReset ==
    IF state = "RESETTING" /\ gpc \in {"loop", "settle", "done"}
    THEN failed ELSE hook = "recover"

\* C23: the status the relay writes at RESETTING entry is fail exactly when
\* the failed flag was set when the Task Runner entered RESETTING, wherever
\* the Task Runner is in its RESETTING branch when the relay reads the flag.
C23_StatusIsFlagAtEntry ==
    [][(rpc = "on_resetting" /\ status_log' # status_log) =>
          ((status_log'[Len(status_log')][2] = "fail") <=> FailedAtReset)]_vars

C25_StopIsTerminal == [][stop_flag => stop_flag']_vars

\* C26 (as claimed): every video writer that has been released was released
\* by the capture thread.
C26_ReleasedOnlyByCapture == \A r \in released : r[2] = "capture"

\* C26 (amended): stop() releases no writer and leaves the writer attributes
\* alone; a writer is released only by a thread that holds writer_lock, which
\* is the capture thread (clip rotation, start and end of record()) or the
\* relay thread inside start_new_recording(); once the relay has called
\* stop() only the capture thread releases.
C26_ReleaseUnderWriterLock ==
    [][/\ (stop_flag' /\ ~stop_flag) =>
            (released' = released /\ video_writer' = video_writer)
       /\ released' # released =>
            \E t \in {"capture", "relay"} :
               /\ video_writer # 0
               /\ released' = released \cup {<<video_writer, t>>}
               /\ writer_lock'.owner = t
               /\ tpc[t] \in {"rs_release", "fin"}
               /\ tpc["relay"] = "done" => t = "capture"]_vars

C26_Witness ==
    /\ tpc["relay"] = "done" /\ tpc["capture"] = "done" /\ stop_flag
    /\ ~shutdown /\ video_writer = 0
    /\ \E r \in released : r[2] = "relay"
    /\ <<opened, "capture">> \in released

\* The capture thread is between the test of the writers and the end of the
\* frame pair's write (recording.py:176-181).
InFlight == tpc["capture"] \in {"cf_wtop", "cf_wbot"}

\* C27: a frame write and a writer rotation never interleave: while the
\* capture thread writes a frame pair no step releases or replaces the
\* writers, every write goes to a writer that is set and has not been
\* released, and both images of a pair go to the same writer.
C27_WriteExcludesRotation ==
    [][/\ InFlight => (video_writer' = video_writer /\ released' = released)
       /\ wrote' # wrote =>
            /\ InFlight /\ video_writer # 0
            /\ \A r \in released : r[1] # video_writer
            /\ wrote' = Append(wrote, <<video_writer, frame_counter,
                                        IF tpc["capture"] = "cf_wtop"
                                        THEN "top" ELSE "bottom">>)
       /\ (tpc["capture"] = "cf_wbot" /\ wrote' # wrote) =>
            wrote[Len(wrote)] = <<video_writer, frame_counter, "top">>]_vars

C27_Witness ==
    /\ tpc["capture"] = "cf_wbot" /\ tpc["relay"] = "rs_lock"
    /\ released # {} /\ video_writer = 2 /\ frame_counter = 1 /\ Len(wrote) = 3

\* C28 (as claimed): no thread takes image_lock while it holds writer_lock.
C28_BufferBeforeWriter ==
    [][\A t \in Threads :
          (image_lock'.owner = t /\ image_lock'.count > image_lock.count)
             => writer_lock.owner # t]_vars

\* Thread t waits for image_lock, for writer_lock.
WaitsForImage(t) ==
    tpc[t] \in {"rs_ensure", "rs_shape", "upd_lock", "ens", "cf_copy"}

WaitsForWriter(t) == tpc[t] \in {"rs_lock", "cf_wlock", "fin"}

\* C28 (amended): the lock order is writer before buffer: no thread takes
\* writer_lock while it holds image_lock, a thread holds both only inside
\* _start_new_video, which it entered holding writer_lock, and no two
\* threads ever wait for each other's lock.
C28_WriterBeforeBuffer ==
    [][/\ \A t \in Threads :
            /\ (writer_lock'.owner = t /\ writer_lock'.count > writer_lock.count)
                  => image_lock.owner # t
            /\ (image_lock.owner = t /\ writer_lock.owner = t)
                  => tpc[t] \in {"rs_check", "rs_state", "rs_shaped"}
       /\ ~ \E t, u \in Threads :
              /\ t # u
              /\ writer_lock.owner = t /\ WaitsForImage(t)
              /\ image_lock.owner = u /\ WaitsForWriter(u)]_vars

C28_Witness ==
    /\ writer_lock.owner = "relay" /\ image_lock.owner = "relay"
    /\ tpc["relay"] = "rs_shaped" /\ tpc["capture"] = "upd_lock"

\* C29: the monitor loop never observes a buffered frame without the sensor
\* state of the same refresh: reading the state after a frame never fails for
\* want of a state, and the state read is that of the frame's refresh.
C29_FrameWithItsState ==
    /\ tpc["monitor"] # "crashed"
    /\ (tpc["monitor"] = "idle" /\ seen[1] # 0) => seen[2] = seen[1]

\* C30: over the whole run at most one Recorder is created and its capture
\* loop is submitted at most once: the Recorder comes into being only in the
\* relay's ACTIVE entry handling, once it exists it never ceases to exist
\* and its capture loop is never started again, and an ACTIVE entry handled
\* with a Recorder in place leaves the capture loop as it is and only
\* re-targets the Recorder.
C30_OneRecorder ==
    [][/\ (cpc = "none" /\ cpc' # "none") =>
            (rpc = "on_active" /\ cpc' \in {"start", "rejected"})
       /\ cpc # "none" => cpc' # "none"
       /\ cpc' = "start" => cpc \in {"none", "start"}
       /\ (rpc = "on_active" /\ rpc' # rpc /\ cpc # "none") =>
            /\ cpc' = cpc
            /\ save_data => rec_output_dir' = <<session_id', "task">>
            /\ ~save_data => rec_output_dir' = rec_output_dir]_vars

C30_Witness ==
    /\ ActiveHandled = 2 /\ rpc = "fire" /\ cur_msg = "ACTIVE"
    /\ cpc = "capture" /\ writers /\ ~shutdown
    /\ rec_output_dir = <<2, "task">>

\* C31: the monitor loop sets the acknowledgement gate only as the last step
\* of a handshake: it incremented the Snapshot Request counter by one, with
\* the request flag set and a Recorder in existence, it left its wait only
\* with the counter at zero, only the capture loop's frame step lowered the
\* counter, and it cleared the request flag before it set the gate.
C31_AckAfterServe ==
    [][/\ (state_recorded_event' /\ ~state_recorded_event) =>
            (mpc = "set_event" /\ take_snapshot = 0)
       /\ (mpc' = "set_event" /\ mpc # "set_event") =>
            (mpc = "clear_flag" /\ ~request_state_record')
       /\ (mpc' = "clear_flag" /\ mpc # "clear_flag") =>
            (mpc = "snap_wait" /\ take_snapshot = 0)
       /\ (mpc' = "snap_wait" /\ mpc # "snap_wait") =>
            (mpc = "check" /\ take_snapshot' = take_snapshot + 1)
       /\ take_snapshot' > take_snapshot =>
            /\ mpc = "check" /\ request_state_record /\ cpc # "none"
            /\ take_snapshot' = take_snapshot + 1
       /\ take_snapshot' < take_snapshot =>
            (cpc = "capture" /\ take_snapshot' = take_snapshot - 1)]_vars

C31_Witness ==
    /\ gpc = "rcs_wait" /\ state_recorded_event /\ ~request_state_record
    /\ take_snapshot = 0 /\ mpc = "top" /\ orders = 2 /\ ~shutdown
    /\ state = "RESETTING"

\* C32 (as claimed): a failure of the sensor fetch during a capture tick is
\* absorbed: the step in which the refresh raises leaves the capture loop
\* running and the Shutdown Signal as it was.
C32_FetchFailureAbsorbed ==
    [][CUpdateFails => (cpc' # "done" /\ shutdown' = shutdown)]_vars

\* C33 (as claimed): once the Task Runner, the monitor loop, the relay loop
\* and the capture loop have all terminated, no writer is open.
C33_NoWriterLeftOpen ==
    AllLoopsExited => ~writers

\* C34 (as claimed): every suspension point ends as soon as the Shutdown
\* Signal is set; for the monitor loop's wait on the Snapshot Request
\* condition: with the signal set, the step that ends the wait is enabled.
C34_WaitsEndOnShutdown ==
    (shutdown /\ mpc = "snap_wait") => ENABLED MSnapWait

\* The frames written to the top writer of the writer pair w.
FramesOfClip(w) ==
    {i \in 1..Len(wrote) : wrote[i][1] = w /\ wrote[i][3] = "top"}

\* C35 (as claimed): with a clip length configured, no writer pair (no clip,
\* the first one included) receives more frames than the clip length.
C35_ClipHoldsAtMostL ==
    clip_length > 0 =>
        \A w \in 1..opened : Cardinality(FramesOfClip(w)) <= clip_length

\* Thread t waits for the lock of snapshot_cond.
WaitsForSnapshot(t) == tpc[t] \in {"cf_fin", "snap_waiting"}

\* The lock thread t is about to acquire, if any.
WantedLock(t) ==
    IF WaitsForImage(t) THEN image_lock
    ELSE IF WaitsForWriter(t) THEN writer_lock
    ELSE IF WaitsForSnapshot(t) THEN snapshot_cond
    ELSE [owner |-> t, count |-> 0]

\* Thread t cannot go on: the lock it is about to acquire is another thread's.
Blocked(t) == ~CanTake(WantedLock(t), t)

\* C36: image_lock, writer_lock and the lock of snapshot_cond never form a
\* cyclic wait: whenever a thread is blocked on one of them, the lock is owned
\* by a thread that is itself not blocked on any lock, so no chain of blocked
\* threads closes into a cycle, and some thread can take a step.
C36_NoCyclicWait ==
    \A t \in Threads :
        Blocked(t) =>
            /\ WantedLock(t).owner \in Threads
            /\ ~Blocked(WantedLock(t).owner)
            /\ ENABLED (CaptureLk \/ RelayLk \/ MonitorLk)

C36_Witness ==
    /\ writer_lock.owner = "relay" /\ image_lock.owner = "relay"
    /\ tpc["capture"] = "upd_lock" /\ Blocked("capture")
    /\ snapshot_cond.owner = "monitor" /\ take_snapshot = 1

\* C37: _capture_frame never strands a snapshot requester: whenever it runs
\* with the Snapshot Request counter positive, the counter is one less after
\* it, whether the frame was written, was skipped for want of writers, or the
\* write raised; and a monitor loop waiting on a counter at zero can leave
\* its wait.
C37_FinallyServesRequest ==
    /\ []((mpc = "snap_wait" /\ take_snapshot = 0) => ENABLED MSnapWait)
    /\ [][\A outcome \in {"written", "raised"} :
             (KFrame(outcome) /\ save_data /\ take_snapshot > 0) =>
                 take_snapshot' = take_snapshot - 1]_vars

C37_Witness ==
    /\ record_only_after_action /\ save_data
    /\ tick_err = "frame" /\ frames = <<>> /\ cpc = "state"
    /\ take_snapshot = 0 /\ mpc = "clear_flag" /\ ~shutdown

\* C38 (as claimed): a snapshot request is fulfilled in every configuration:
\* without shutdown, every tick the capture loop completes while the monitor
\* loop waits on a positive Snapshot Request counter lowers the counter by
\* one.
C38_RequestServedAlways ==
    [][(cpc = "capture" /\ cpc' = "loop" /\ mpc = "snap_wait"
          /\ take_snapshot > 0 /\ ~shutdown) =>
             take_snapshot' = take_snapshot - 1]_vars

\* The entries into ACTIVE in a sequence of states.
ActiveEntries(seq) == Len(SelectSeq(seq, LAMBDA s : s = "ACTIVE"))

\* C39: the start gate carries no stale signal.  The gate is clear in every
\* step by which the Task Runner enters ACTIVE; the relay has handled no more
\* ACTIVE entries than the Task Runner has made; and without shutdown the
\* relay sets the gate only while it is clear and the Task Runner is in
\* ACTIVE ahead of perform_task, the gate is set only in such a state, and
\* the Task Runner passes the gate only by clearing a set gate.
C39_NoStaleStart ==
    /\ [](ActiveEntries(fired) <= ActiveEntries(occurred))
    /\ []((start_event /\ ~shutdown) =>
             (state = "ACTIVE" /\ gpc \in {"loop", "wait_start"}))
    /\ [][/\ (state' = "ACTIVE" /\ state # "ACTIVE") =>
                (~start_event /\ ~start_event')
          /\ (RFire /\ ~shutdown) =>
                (~start_event /\ state = "ACTIVE"
                    /\ gpc \in {"loop", "wait_start"})
          /\ (gpc = "wait_start" /\ gpc' = "perform" /\ ~shutdown) =>
                (start_event /\ ~start_event')]_vars

C39_Witness ==
    /\ ActiveEntries(occurred) = 2 /\ ActiveEntries(fired) = 2
    /\ gpc = "perform" /\ state = "ACTIVE" /\ ~start_event /\ started
    /\ rpc = "get" /\ prev_state = "ACTIVE" /\ ~shutdown

\* C40 (as claimed): after the Task Runner has reached FINISHED and the relay
\* loop has exited (with save_data the relay started the recording on
\* ACTIVE; it called stop() on FINISHED and left), the monitor loop keeps
\* running as long as the Shutdown Signal is not set: no step ends it.
C40_MonitorRunsUntilShutdown ==
    [][(tpc["relay"] = "done" /\ (save_data => retargets > 0) /\ ~shutdown
          /\ tpc["monitor"] # "crashed") =>
             tpc'["monitor"] # "crashed"]_vars

=============================================================================
